---- MODULE Spec2Model ----
(***************************************************************************)
(* A model of the finance dashboard (VitorAvian/finan-as): the session's   *)
(* in-memory transaction list and its record store, the optimistic delete, *)
(* the bank-import reconciliation run, and the aggregation functions that  *)
(* derive reports from the transaction list.                               *)
(*                                                                         *)
(* Money is held in thousandths of a currency unit (45.004 is 45004), so   *)
(* that the 0.01 matching tolerance and its sub-cent cases are exact.      *)
(* A date string 'YYYY-MM-DD' is the tuple <<year, month, day>>; string    *)
(* equality of two dates is equality of the tuples.                        *)
(***************************************************************************)
EXTENDS Integers, Sequences, FiniteSets, TLC

VARIABLES
    backend,       \* "supabase" | "local": isSupabaseConfigured()
    store,         \* the owner's rows in the record store, newest first
    transactions,  \* TransactionProvider's useState list
    error,         \* TransactionProvider's error state ("none" when null)
    nextId,        \* the next identifier the store assigns
    adds,          \* addTransaction calls awaiting api.createTransaction
    dels,          \* deleteTransaction calls awaiting api.deleteTransaction
    ret,           \* what the last completed context call returned
    run,           \* BankConnectModal: step, candidates, counters, summary
    today,         \* the reference date, new Date()
    view,          \* the last derived view-model that was computed
    user,          \* useAuth().user: the signed-in owner's id, or "none"
    budgets,       \* TransactionProvider's useState budget list
    categories,    \* TransactionProvider's useState category list
    budgetStore,   \* the owner's rows in the budget store
    loads,         \* loadData calls awaiting their three fetches
    saves,         \* saveBudget calls awaiting api.upsertBudget
    upds,          \* updateTransaction calls awaiting api.updateTransaction
    timeOfDay,     \* minutes since midnight of new Date()
    modal          \* DashboardContent: isModalOpen, editingTransaction, isSubmitting

\* The part of the state the transaction operations leave alone.
others ==
    <<user, budgets, categories, budgetStore, loads, saves, upds, timeOfDay, modal>>

vars == <<backend, store, transactions, error, nextId, adds, dels, ret, run,
          today, view, others>>

(***************************************************************************)
(* Bounds of the model.                                                    *)
(***************************************************************************)
MaxAggLen == 3

\* Largest identifier the store hands out: caps the number of creates.
MaxTx == 4

\* Length of a candidate batch (the generator draws 10 to 15; the loop over
\* the batch is the same for any length).
MaxBatch == 3

\* deleteTransaction calls in flight at once.
MaxDels == 2

\* Bank imports in one session of SpecRerun.
MaxRuns == 2

(***************************************************************************)
(* Dates.                                                                  *)
(***************************************************************************)
Year(date) == date[1]

Month(date) == date[2]

Day(date) == date[3]

IsLeap(y) == (y % 4 = 0 /\ y % 100 # 0) \/ (y % 400 = 0)

DaysInMonth(y, m) ==
    IF m = 2 THEN (IF IsLeap(y) THEN 29 ELSE 28)
    ELSE IF m \in {4, 6, 9, 11} THEN 30 ELSE 31

\* Date.getMonth(): zero-based month.
GetMonth(date) == Month(date) - 1

\* prevDate = new Date(now); prevDate.setMonth(now.getMonth() - 1):
\* the month moves back by one (December of the previous year from January)
\* and a day past the end of the target month rolls over into the next one.
SetMonthMinusOne(now) ==
    LET y == IF Month(now) = 1 THEN Year(now) - 1 ELSE Year(now)
        m == IF Month(now) = 1 THEN 12 ELSE Month(now) - 1
    IN  IF Day(now) <= DaysInMonth(y, m)
        THEN <<y, m, Day(now)>>
        ELSE IF m = 12 THEN <<y + 1, 1, Day(now) - DaysInMonth(y, m)>>
             ELSE <<y, m + 1, Day(now) - DaysInMonth(y, m)>>

(***************************************************************************)
(* Transactions.                                                           *)
(***************************************************************************)
\* A transaction that does not recur: isRecurring false, no frequency
\* ("none" stands for an undefined or null frequency).
Tx(id, description, type, amount, category, date) ==
    [id |-> id, description |-> description, type |-> type,
     amount |-> amount, category |-> category, date |-> date,
     isRecurring |-> FALSE, frequency |-> "none"]

\* What a caller hands to addTransaction: a transaction without its id.
Data(description, type, amount, category, date) ==
    [description |-> description, type |-> type, amount |-> amount,
     category |-> category, date |-> date]

WithId(data, id) ==
    Tx(id, data.description, data.type, data.amount, data.category, data.date)

Ids(txs) == {txs[i].id : i \in 1..Len(txs)}

(***************************************************************************)
(* Aggregation: stats (all-time summary).                                  *)
(***************************************************************************)
StatsStepSignSlip(acc, curr) ==
    IF curr.type = "income"
    THEN [acc EXCEPT !.totalIncome = @ + curr.amount,
                     !.totalBalance = @ + curr.amount]
    ELSE [acc EXCEPT !.totalExpenses = @ + curr.amount,
                     !.totalBalance = @ + curr.amount]

\* The reducer of stats: one transaction folded into the accumulator.
StatsStep(acc, curr) ==
    IF curr.type = "income"
    THEN [acc EXCEPT !.totalIncome = @ + curr.amount,
                     !.totalBalance = @ + curr.amount]
    ELSE [acc EXCEPT !.totalExpenses = @ + curr.amount,
                     !.totalBalance = @ - curr.amount]

RECURSIVE StatsFrom(_, _)
StatsFrom(acc, txs) ==
    IF txs = <<>> THEN acc
    ELSE StatsFrom(StatsStep(acc, Head(txs)), Tail(txs))

Stats(txs) ==
    StatsFrom([totalBalance |-> 0, totalIncome |-> 0, totalExpenses |-> 0], txs)

(***************************************************************************)
(* Aggregation: financialReport (month over month).                        *)
(***************************************************************************)
ZeroMonth == [income |-> 0, expenses |-> 0, balance |-> 0]

IsBeforeCurrentMonthInclusive(t, now) ==
    \/ Year(t.date) < Year(now)
    \/ Year(t.date) = Year(now) /\ (Month(t.date) - 1) <= GetMonth(now)

IsBeforeCurrentMonthSameYearOnly(t, now) ==
    Year(t.date) = Year(now) /\ (Month(t.date) - 1) < GetMonth(now)

\* tYear < currentYear || (tYear === currentYear && (tMonth - 1) < currentMonth)
IsBeforeCurrentMonth(t, now) ==
    \/ Year(t.date) < Year(now)
    \/ Year(t.date) = Year(now) /\ (Month(t.date) - 1) < GetMonth(now)

\* tYear === currentYear && (tMonth - 1) === currentMonth
IsCurrentMonth(t, now) ==
    Year(t.date) = Year(now) /\ (Month(t.date) - 1) = GetMonth(now)

\* tYear === prevYear && (tMonth - 1) === prevMonth
IsPreviousMonth(t, now) ==
    LET prevDate == SetMonthMinusOne(now)
    IN  Year(t.date) = Year(prevDate) /\ (Month(t.date) - 1) = GetMonth(prevDate)

MonthAdd(m, t) ==
    IF t.type = "income" THEN [m EXCEPT !.income = @ + t.amount]
    ELSE [m EXCEPT !.expenses = @ + t.amount]

Signed(t) == IF t.type = "income" THEN t.amount ELSE 0 - t.amount

\* The body of transactions.forEach in financialReport.
ReportStep(acc, t, now) ==
    [current |-> IF IsCurrentMonth(t, now)
                 THEN MonthAdd(acc.current, t) ELSE acc.current,
     previous |-> IF IsPreviousMonth(t, now)
                  THEN MonthAdd(acc.previous, t) ELSE acc.previous,
     totalBalance |-> acc.totalBalance + Signed(t),
     previousClosingBalance |->
         IF IsBeforeCurrentMonth(t, now)
         THEN acc.previousClosingBalance + Signed(t)
         ELSE acc.previousClosingBalance]

RECURSIVE ReportFrom(_, _, _)
ReportFrom(acc, txs, now) ==
    IF txs = <<>> THEN acc
    ELSE ReportFrom(ReportStep(acc, Head(txs), now), Tail(txs), now)

FinancialReport(txs, now) ==
    LET acc == ReportFrom([current |-> ZeroMonth, previous |-> ZeroMonth,
                           totalBalance |-> 0, previousClosingBalance |-> 0],
                          txs, now)
    IN  [currentMonth |->
             [acc.current EXCEPT !.balance = acc.current.income - acc.current.expenses],
         previousMonth |->
             [acc.previous EXCEPT !.balance = acc.previous.income - acc.previous.expenses],
         totalBalance |-> acc.totalBalance,
         previousClosingBalance |-> acc.previousClosingBalance]

(***************************************************************************)
(* Record store: api.createTransaction, api.deleteTransaction.             *)
(***************************************************************************)
\* transaction.isRecurring || false, for a field the caller may have left out
OrFalse(data, field) == IF field \in DOMAIN data THEN data[field] ELSE FALSE

\* transaction.frequency || null and an undefined frequency alike: "none"
OrNone(data, field) == IF field \in DOMAIN data THEN data[field] ELSE "none"

CreatedRowAmountDrift(data, id) ==
    Tx(id, data.description, data.type, data.amount + 20, data.category, data.date)

\* The transaction api.createTransaction returns: the submitted fields with
\* the identifier the store assigned.
CreatedRow(data, id) ==
    [Tx(id, data.description, data.type, data.amount, data.category, data.date)
        EXCEPT !.isRecurring = OrFalse(data, "isRecurring"),
               !.frequency = OrNone(data, "frequency")]

\* api.createTransaction: the new row goes in front of the stored ones.
ApiCreateTransaction(st, data, id) ==
    [row |-> CreatedRow(data, id), store |-> <<CreatedRow(data, id)>> \o st]

WithoutId(txs, id) == SelectSeq(txs, LAMBDA t : t.id # id)

\* Rows the delete matches: .eq('id', id) on the owner's rows.
RowCount(st, id) == Len(SelectSeq(st, LAMBDA t : t.id = id))

\* api.deleteTransaction. Supabase: a transport or database error throws its
\* message, a count of zero throws DELETE_BLOCKED_BY_RLS. Local storage: the
\* filtered list is written back and the call resolves, whatever it removed.
ApiDeleteTransaction(be, st, id, fault) ==
    IF be = "supabase"
    THEN IF fault
         THEN [ok |-> FALSE, message |-> "network", store |-> st]
         ELSE IF RowCount(st, id) = 0
              THEN [ok |-> FALSE, message |-> "DELETE_BLOCKED_BY_RLS", store |-> st]
              ELSE [ok |-> TRUE, message |-> "", store |-> WithoutId(st, id)]
    ELSE [ok |-> TRUE, message |-> "", store |-> WithoutId(st, id)]

(***************************************************************************)
(* Reconciliation: reconcileAndSave.                                       *)
(***************************************************************************)
\* 0.01, in thousandths.
Tolerance == 10

Abs(x) == IF x < 0 THEN 0 - x ELSE x

IsDuplicateWithCategory(existing, candidate) ==
    \E i \in 1..Len(existing) :
        /\ existing[i].date = candidate.date
        /\ Abs(existing[i].amount - candidate.amount) < Tolerance
        /\ existing[i].type = candidate.type
        /\ existing[i].category = candidate.category

\* transactions.some(existing => same date, |amount difference| < 0.01, same type)
IsDuplicate(existing, candidate) ==
    \E i \in 1..Len(existing) :
        /\ existing[i].date = candidate.date
        /\ Abs(existing[i].amount - candidate.amount) < Tolerance
        /\ existing[i].type = candidate.type

\* The loop of reconcileAndSave from candidate i up to its next suspension:
\* duplicates are counted and passed over; at the first candidate that is
\* not one, addTransaction is called and the loop waits for it; past the
\* last candidate the loop is over.
RECURSIVE ReconcileFromNoAwait(_, _, _)
ReconcileFromNoAwait(r, i, current) ==
    IF i > Len(r.candidates)
    THEN [r EXCEPT !.idx = IF r.issued = <<>> THEN i ELSE r.issued[1],
                   !.phase = IF r.issued = <<>> THEN "done" ELSE "awaitAdd"]
    ELSE IF IsDuplicate(r.seen, r.candidates[i])
         THEN ReconcileFromNoAwait(
                  [r EXCEPT !.skippedCount = @ + 1,
                            !.decisions = Append(@, "skipped")], i + 1, current)
         ELSE ReconcileFromNoAwait(
                  [r EXCEPT !.decisions = Append(@, "create"),
                            !.issued = Append(@, i)], i + 1, current)

RECURSIVE ReconcileFromLiveList(_, _, _)
ReconcileFromLiveList(r, i, current) ==
    IF i > Len(r.candidates)
    THEN [r EXCEPT !.idx = i, !.phase = "done"]
    ELSE IF IsDuplicate(current, r.candidates[i])
         THEN ReconcileFromLiveList(
                  [r EXCEPT !.skippedCount = @ + 1,
                            !.decisions = Append(@, "skipped")], i + 1, current)
         ELSE [r EXCEPT !.idx = i, !.phase = "awaitAdd",
                        !.decisions = Append(@, "create"),
                        !.issued = Append(@, i)]

RECURSIVE ReconcileFrom(_, _, _)
ReconcileFrom(r, i, current) ==
    IF i > Len(r.candidates)
    THEN [r EXCEPT !.idx = i, !.phase = "done"]
    ELSE IF IsDuplicate(r.seen, r.candidates[i])
         THEN ReconcileFrom(
                  [r EXCEPT !.skippedCount = @ + 1,
                            !.decisions = Append(@, "skipped")], i + 1, current)
         ELSE [r EXCEPT !.idx = i, !.phase = "awaitAdd",
                        !.decisions = Append(@, "create"),
                        !.issued = Append(@, i)]

\* runSimulation after reconcileAndSave returned:
\* setResultSummary({ imported, skipped }); setStep('success').
Finish(r) ==
    IF r.phase = "done"
    THEN [r EXCEPT !.resultSummary = [imported |-> r.importedCount,
                                      skipped |-> r.skippedCount],
                   !.step = "success"]
    ELSE r

\* The addTransaction calls the loop made between run state r0 and r1.
NewCalls(r0, r1) ==
    [k \in 1..(Len(r1.issued) - Len(r0.issued)) |->
        [origin |-> "bank", data |-> r1.candidates[r1.issued[Len(r0.issued) + k]]]]

RemoveAt(seq, k) == SubSeq(seq, 1, k - 1) \o SubSeq(seq, k + 1, Len(seq))

(***************************************************************************)
(* The data the session works on.                                          *)
(***************************************************************************)
D1 == <<2024, 2, 1>>

D2 == <<2024, 2, 2>>

\* Rows the owner already has when the session starts.
Mercado(id, amount, date) ==
    Tx(id, "Mercado", "expense", amount, "Alimentacao", date)

InitialLists ==
    { <<>>,
      <<Mercado(1, 200000, D1)>>,
      <<Mercado(1, 200004, D1)>>,
      <<Mercado(1, 200009, D1)>>,
      <<Mercado(1, 200000, D2)>> }

\* What generateMockTransactions can draw for bank 'itau' around 200.00:
\* templates of DESCRIPTIONS_BY_BANK with an amount of two decimals and a date.
CandidatePool ==
    { Data("POSTO IPIRANGA", "expense", 200000, "Transporte", D1),
      Data("PIX TRANSF TITULARIDADE", "income", 200000, "Outros", D1),
      Data("SUPERMERCADO DIA", "expense", 200020, "Alimentacao", D1) }

Batches == UNION {[1..n -> CandidatePool] : n \in 1..MaxBatch}

\* What the transaction form submits.
FormData == { Data("Mercado", "expense", 200000, "Alimentacao", D1) }

\* History of the run before this one (kept for the statements below).
NoPrev == [candidates |-> <<>>, seen |-> <<>>, created |-> <<>>, failed |-> 0]

\* step, the locals of runSimulation and reconcileAndSave, resultSummary;
\* decisions, issued, created, failed, runNo and prev record what the run did.
NoRun ==
    [step |-> "selection", phase |-> "idle",
     seen |-> <<>>, candidates |-> <<>>, idx |-> 0,
     importedCount |-> 0, skippedCount |-> 0,
     resultSummary |-> [imported |-> 0, skipped |-> 0],
     decisions |-> <<>>, issued |-> <<>>, created |-> <<>>, failed |-> 0,
     runNo |-> 0, prev |-> NoPrev]

NoRet == [op |-> "none", id |-> 0, value |-> FALSE]

NoView == [kind |-> "none"]

\* useState(false), useState(null), useState(false); 0 stands for no
\* transaction in edit
NoModal == [isModalOpen |-> FALSE, editingTransaction |-> 0, isSubmitting |-> FALSE]

Today0 == <<2024, 2, 10>>

\* The rest of the session while the owner works on the transactions: signed
\* in, nothing pending, no budgets.
SignedIn ==
    /\ user = "u1"
    /\ budgets = <<>>
    /\ categories = <<>>
    /\ budgetStore = <<>>
    /\ loads = <<>>
    /\ saves = <<>>
    /\ upds = <<>>
    /\ timeOfDay = 0
    /\ modal = NoModal

(***************************************************************************)
(* The session: Init is the state after loadData has filled the lists.     *)
(***************************************************************************)
Init ==
    /\ backend \in {"supabase", "local"}
    /\ store \in InitialLists
    /\ transactions = store
    /\ error = "none"
    /\ nextId = Len(store) + 1
    /\ adds = <<>>
    /\ dels = <<>>
    /\ ret = NoRet
    /\ run = NoRun
    /\ today = Today0
    /\ view = NoView
    /\ SignedIn

\* handleSelectBank: the bank is chosen and runSimulation starts; the
\* reconcileAndSave it will call closes over this render's transactions.
HandleSelectBank ==
    /\ run.step = "selection"
    /\ run' = [NoRun EXCEPT !.step = "process",
                            !.phase = "connecting", !.seen = transactions,
                            !.resultSummary = run.resultSummary,
                            !.runNo = run.runNo + 1, !.prev = run.prev]
    /\ UNCHANGED <<others, backend, store, transactions, error, nextId, adds, dels,
                   ret, today, view>>

\* runSimulation after its three timers (the first two only change the
\* status text): the batch is generated and reconcileAndSave runs up to its
\* first addTransaction (which clears the error), or to its end.
ReconcileAndSave(batch) ==
    /\ run.step = "process" /\ run.phase = "connecting"
    /\ LET r0 == [run EXCEPT !.candidates = batch]
           r1 == ReconcileFrom(r0, 1, transactions)
       IN  /\ run' = Finish(r1)
           /\ adds' = adds \o NewCalls(r0, r1)
           /\ error' = IF NewCalls(r0, r1) = <<>> THEN error ELSE "none"
    /\ UNCHANGED <<others, backend, store, transactions, nextId, dels, ret, today, view>>

\* The state of the run after the addTransaction it awaited has returned:
\* importedCount++, then the loop goes on.
AfterAdd(r, current) == ReconcileFrom([r EXCEPT !.importedCount = @ + 1], r.idx + 1, current)

\* api.createTransaction resolves: addTransaction puts the new row in front
\* of the list; a call made by reconcileAndSave resumes the loop.
AddTransactionResolve(k) ==
    /\ nextId <= MaxTx
    /\ LET call == adds[k]
           res == ApiCreateTransaction(store, call.data, nextId)
           rest == RemoveAt(adds, k)
       IN  /\ store' = res.store
           /\ transactions' = <<res.row>> \o transactions
           /\ nextId' = nextId + 1
           /\ IF call.origin = "bank"
              THEN LET r0 == [run EXCEPT !.created = Append(@, res.row)]
                       r1 == AfterAdd(r0, transactions')
                   IN  /\ run' = Finish(r1)
                       /\ adds' = rest \o NewCalls(r0, r1)
                       /\ error' = IF NewCalls(r0, r1) = <<>> THEN error ELSE "none"
              ELSE /\ run' = run
                   /\ adds' = rest
                   /\ error' = error
    /\ UNCHANGED <<others, backend, dels, ret, today, view>>

AddTransactionRejectRethrow(k) ==
    /\ LET call == adds[k]
       IN  /\ adds' = RemoveAt(adds, k)
           /\ error' = "Falha ao adicionar transacao"
           /\ run' = IF call.origin = "bank"
                     THEN [run EXCEPT !.failed = @ + 1, !.phase = "aborted"]
                     ELSE run
    /\ UNCHANGED <<others, backend, store, transactions, nextId, dels, ret, today, view>>

\* api.createTransaction throws: addTransaction reports the error and
\* returns normally; a call made by reconcileAndSave resumes the loop.
AddTransactionReject(k) ==
    /\ LET call == adds[k]
           rest == RemoveAt(adds, k)
       IN  IF call.origin = "bank"
           THEN LET r0 == [run EXCEPT !.failed = @ + 1]
                    r1 == AfterAdd(r0, transactions)
                IN  /\ run' = Finish(r1)
                    /\ adds' = rest \o NewCalls(r0, r1)
                    /\ error' = IF NewCalls(r0, r1) = <<>>
                                THEN "Falha ao adicionar transacao" ELSE "none"
           ELSE /\ run' = run
                /\ adds' = rest
                /\ error' = "Falha ao adicionar transacao"
    /\ UNCHANGED <<others, backend, store, transactions, nextId, dels, ret, today, view>>

\* handleSave of a new transaction: addTransaction clears the error and
\* calls api.createTransaction.
AddTransaction(data) ==
    /\ nextId + Len(adds) <= MaxTx
    /\ adds' = Append(adds, [origin |-> "form", data |-> data])
    /\ error' = "none"
    /\ UNCHANGED <<others, backend, store, transactions, nextId, dels, ret, run,
                   today, view>>

\* deleteTransaction up to its await: the list is kept aside, the row is
\* taken out of the list at once and api.deleteTransaction is called.
DeleteTransaction(id) ==
    /\ Len(dels) < MaxDels
    /\ id \in Ids(transactions)
    /\ dels' = Append(dels, [id |-> id, previousTransactions |-> transactions])
    /\ transactions' = WithoutId(transactions, id)
    /\ UNCHANGED <<others, backend, store, error, nextId, adds, ret, run, today, view>>

\* What deleteTransaction does with the list when the store call is back.
AfterDelete(current, call, res) ==
    IF res.ok THEN current ELSE call.previousTransactions

\* deleteTransaction after its await: true on success; on failure the list
\* kept aside is put back, the error is set and the call returns false.
DeleteTransactionSettle(k, fault) ==
    /\ LET call == dels[k]
           res == ApiDeleteTransaction(backend, store, call.id, fault)
       IN  /\ store' = res.store
           /\ transactions' = AfterDelete(transactions, call, res)
           /\ error' = IF res.ok THEN error
                       ELSE IF res.message = "network"
                            THEN "Falha ao deletar: network"
                            ELSE "Falha ao deletar: DELETE_BLOCKED_BY_RLS"
           /\ ret' = [op |-> "delete", id |-> call.id, value |-> res.ok]
           /\ dels' = RemoveAt(dels, k)
    /\ UNCHANGED <<others, backend, nextId, adds, run, today, view>>

\* "Concluir" and a new opening of the modal: the step is 'selection' again.
CloseAndReopen ==
    /\ run.step = "success"
    /\ run.runNo < MaxRuns
    /\ run' = [run EXCEPT !.step = "selection",
                          !.prev = [candidates |-> run.candidates, seen |-> run.seen,
                                    created |-> run.created, failed |-> run.failed]]
    /\ UNCHANGED <<others, backend, store, transactions, error, nextId, adds, dels,
                   ret, today, view>>

(***************************************************************************)
(* Spec: one bank import, with transactions added through the form.        *)
(***************************************************************************)
Next ==
    \/ HandleSelectBank
    \/ \E batch \in Batches : ReconcileAndSave(batch)
    \/ \E k \in DOMAIN adds : AddTransactionResolve(k)
    \/ \E k \in DOMAIN adds : AddTransactionReject(k)
    \/ \E data \in FormData : AddTransaction(data)

Spec == Init /\ [][Next]_vars

(***************************************************************************)
(* SpecRerun: a bank import, then a second one with the same batch.        *)
(***************************************************************************)
NextRerun ==
    \/ HandleSelectBank
    \/ \E batch \in (IF run.runNo = 1 THEN Batches ELSE {run.prev.candidates}) :
           ReconcileAndSave(batch)
    \/ \E k \in DOMAIN adds : AddTransactionResolve(k)
    \/ \E k \in DOMAIN adds : AddTransactionReject(k)
    \/ \E data \in FormData : AddTransaction(data)
    \/ CloseAndReopen

SpecRerun == Init /\ [][NextRerun]_vars

(***************************************************************************)
(* SpecDelete: deletes, two of them in flight at most, and form adds.      *)
(***************************************************************************)
NextDelete ==
    \/ \E k \in DOMAIN adds : AddTransactionResolve(k)
    \/ \E k \in DOMAIN adds : AddTransactionReject(k)
    \/ \E data \in FormData : AddTransaction(data)
    \/ \E id \in 1..MaxTx : DeleteTransaction(id)
    \/ \E k \in DOMAIN dels, fault \in BOOLEAN : DeleteTransactionSettle(k, fault)

SpecDelete == Init /\ [][NextDelete]_vars

(***************************************************************************)
(* SpecAgg: stats and financialReport computed from a transaction list.    *)
(***************************************************************************)
AggDates ==
    { <<2023, 3, 10>>, <<2023, 12, 20>>, <<2024, 1, 5>>, <<2024, 1, 10>>,
      <<2024, 3, 31>>, <<2024, 4, 2>> }

AggPool ==
    { Data("Salario", "income", 1000000, "Salario", d) : d \in AggDates }
    \cup { Data("Mercado", "expense", a, "Alimentacao", d) :
              a \in {200000, 50000}, d \in AggDates }

\* The list the store returns for a sequence of submitted transactions.
Stored(datas) == [i \in 1..Len(datas) |-> WithId(datas[i], i)]

AggLists == UNION {{Stored(f) : f \in [1..n -> AggPool]} : n \in 0..MaxAggLen}

Todays == { <<2024, 1, 15>>, <<2024, 3, 31>> }

InitAgg ==
    /\ backend = "local"
    /\ transactions \in AggLists
    /\ store = transactions
    /\ error = "none"
    /\ nextId = Len(store) + 1
    /\ adds = <<>>
    /\ dels = <<>>
    /\ ret = NoRet
    /\ run = NoRun
    /\ today \in Todays
    /\ view = NoView
    /\ SignedIn

\* useMemo of stats over the list.
ComputeStats ==
    /\ view' = [kind |-> "stats", value |-> Stats(transactions)]
    /\ UNCHANGED <<others, backend, store, transactions, error, nextId, adds, dels,
                   ret, run, today>>

\* useMemo of financialReport over the list, at new Date().
ComputeFinancialReport ==
    /\ view' = [kind |-> "report", value |-> FinancialReport(transactions, today)]
    /\ UNCHANGED <<others, backend, store, transactions, error, nextId, adds, dels,
                   ret, run, today>>

NextAgg == ComputeStats \/ ComputeFinancialReport

SpecAgg == InitAgg /\ [][NextAgg]_vars

(***************************************************************************)
(* Sums the statements below are written with.                             *)
(***************************************************************************)
RECURSIVE SumOver(_, _)
SumOver(txs, idx) ==
    IF idx = {} THEN 0
    ELSE LET i == CHOOSE j \in idx : TRUE
         IN  txs[i].amount + SumOver(txs, idx \ {i})

Incomes(txs) == {i \in DOMAIN txs : txs[i].type = "income"}

Expenses(txs) == {i \in DOMAIN txs : txs[i].type = "expense"}

\* income minus expense over the positions idx
SignedSum(txs, idx) ==
    SumOver(txs, idx \cap Incomes(txs)) - SumOver(txs, idx \cap Expenses(txs))

\* year-month of a date, as one number
YearMonth(date) == 12 * date[1] + date[2]

InMonthOf(txs, now) == {i \in DOMAIN txs : YearMonth(txs[i].date) = YearMonth(now)}

BeforeMonthOf(txs, now) == {i \in DOMAIN txs : YearMonth(txs[i].date) < YearMonth(now)}

AfterMonthOf(txs, now) == {i \in DOMAIN txs : YearMonth(txs[i].date) > YearMonth(now)}

\* C1: the summary of any transaction list has totalBalance = totalIncome -
\* totalExpenses, totalIncome being the sum of all income amounts and
\* totalExpenses the sum of all expense amounts, whatever the dates.
C1_SummaryIdentity ==
    view.kind = "stats" =>
        /\ view.value.totalBalance = view.value.totalIncome - view.value.totalExpenses
        /\ view.value.totalIncome = SumOver(transactions, Incomes(transactions))
        /\ view.value.totalExpenses = SumOver(transactions, Expenses(transactions))

C1_Witness ==
    /\ view.kind = "stats"
    /\ Len(transactions) = 3
    /\ view.value.totalIncome > 0
    /\ view.value.totalExpenses > 0
    /\ view.value.totalBalance = 1000000 - 250000
    /\ \E i, j \in DOMAIN transactions :
          YearMonth(transactions[i].date) # YearMonth(transactions[j].date)

Matching(existing, c) ==
    {i \in DOMAIN existing :
        /\ existing[i].date = c.date
        /\ existing[i].type = c.type
        /\ existing[i].amount - c.amount < 10
        /\ c.amount - existing[i].amount < 10}

\* Positions of the batch whose candidate has been classified.
Decided == 1..Len(run.decisions)

Fresh == {i \in DOMAIN run.candidates : Matching(run.seen, run.candidates[i]) = {}}

\* C7: every candidate is matched against the transaction list of before
\* the run only: a candidate equal to one imported earlier in the same run
\* is imported too, so k identical candidates that match no earlier
\* transaction make k creates and importedCount = k.
C7_MatchedAgainstPreRunList ==
    /\ \A i, j \in Decided :
          (i < j /\ run.candidates[i] = run.candidates[j]
           /\ run.decisions[i] = "create") => run.decisions[j] = "create"
    /\ run.step = "success" =>
          /\ Len(run.issued) = Cardinality(Fresh)
          /\ run.importedCount = Cardinality(Fresh)
          /\ run.resultSummary.imported = Cardinality(Fresh)
          /\ (\A i \in DOMAIN run.candidates :
                 run.candidates[i] = run.candidates[1] /\ i \in Fresh)
             => run.importedCount = Len(run.candidates)

C7_Witness ==
    /\ run.step = "success"
    /\ Len(run.candidates) = 3
    /\ \A i \in 1..3 : run.candidates[i] = run.candidates[1]
    /\ run.importedCount = 3
    /\ Len(run.created) = 3
    /\ \A i \in 1..3 : Matching(transactions, run.candidates[i]) # {}

\* The addTransaction calls of the run that await api.createTransaction.
BankCalls == {k \in DOMAIN adds : adds[k].origin = "bank"}

\* C8: the inserts of a run are strictly sequential: at most one create of
\* the run is in flight, creates are issued in candidate order, and the
\* create of a candidate is issued only when the one before has completed.
C8_SequentialCreates ==
    /\ Cardinality(BankCalls) <= 1
    /\ \A a, b \in DOMAIN run.issued : a < b => run.issued[a] < run.issued[b]
    /\ \A i \in Decided :
          run.decisions[i] = "create" <=> \E a \in DOMAIN run.issued : run.issued[a] = i
    /\ \A k \in BankCalls :
          /\ run.phase = "awaitAdd"
          /\ run.issued # <<>>
          /\ run.issued[Len(run.issued)] = run.idx
          /\ adds[k].data = run.candidates[run.idx]
          /\ Len(run.decisions) = run.idx
          \* every create issued before this one has completed
          /\ Len(run.created) + run.failed = Len(run.issued) - 1

C8_Witness ==
    /\ Cardinality(BankCalls) = 1
    /\ Len(run.issued) = 3
    /\ Len(run.created) = 1
    /\ run.failed = 1
    /\ \E k \in DOMAIN adds : adds[k].origin = "form"

\* C9: a failed create does not stop the run: the remaining candidates are
\* processed, the rows created earlier in the run stay in the store and in
\* the in-memory list, and the run ends in the success step with a summary.
C9_FailureDoesNotAbort ==
    /\ \A j \in DOMAIN run.created :
          /\ \E i \in DOMAIN store : store[i] = run.created[j]
          /\ \E i \in DOMAIN transactions : transactions[i] = run.created[j]
    /\ run.step \in {"selection", "process", "success"}
    /\ run.step = "process" =>
          \/ run.phase = "connecting"
          \/ run.phase = "awaitAdd" /\ BankCalls # {}
    /\ run.step = "success" =>
          /\ Len(run.decisions) = Len(run.candidates)
          /\ Len(run.created) + run.failed = Len(run.issued)
          /\ run.resultSummary.skipped =
                 Cardinality({i \in Decided : run.decisions[i] = "skipped"})
          /\ run.resultSummary.imported + run.resultSummary.skipped
                 = Len(run.candidates)

C9_Witness ==
    /\ run.step = "success"
    /\ run.decisions = <<"create", "create", "create">>
    /\ run.failed = 1
    /\ Len(run.created) = 2
    /\ run.created[1] = WithId(run.candidates[1], run.created[1].id)
    /\ run.created[2] = WithId(run.candidates[3], run.created[2].id)
    /\ error = "Falha ao adicionar transacao"

\* The list the second run matches against holds the list the first run
\* matched against and every row the first run created.
SeesFirstRun ==
    \A t \in {run.prev.seen[i] : i \in DOMAIN run.prev.seen}
             \cup {run.prev.created[i] : i \in DOMAIN run.prev.created} :
        \E j \in DOMAIN run.seen : run.seen[j] = t

\* C4: reconciliation is idempotent: after a first run all of whose creates
\* succeeded, a second run with the same batch, against the earlier list
\* extended by the first run's imports, skips every candidate and creates
\* nothing.
C4_RerunSkipsEverything ==
    (/\ run.runNo = 2
     /\ run.prev.failed = 0
     /\ run.candidates = run.prev.candidates
     /\ run.candidates # <<>>
     /\ SeesFirstRun)
    => /\ run.step = "success"
       /\ run.skippedCount = Len(run.candidates)
       /\ run.resultSummary = [imported |-> 0, skipped |-> Len(run.candidates)]
       /\ run.issued = <<>>
       /\ run.created = <<>>
       /\ BankCalls = {}

C4_Witness ==
    /\ run.runNo = 2
    /\ run.step = "success"
    /\ run.prev.failed = 0
    /\ Len(run.prev.created) = 3
    /\ run.prev.candidates[1] # run.prev.candidates[2]
    /\ run.candidates = run.prev.candidates
    /\ run.skippedCount = 3

(***************************************************************************)
(* Statements about deleteTransaction (SpecDelete).                        *)
(***************************************************************************)
\* The step is the start of a deleteTransaction call for row id.
DeleteStarts(id) ==
    /\ Len(dels') = Len(dels) + 1
    /\ dels'[Len(dels')].id = id

\* The step is the completion of the deleteTransaction call dels[k].
DeleteSettles(k) ==
    /\ k \in DOMAIN dels
    /\ dels' = RemoveAt(dels, k)
    /\ ret'.op = "delete"
    /\ ret'.id = dels[k].id

\* C5: deleteTransaction removes the row from the list at once; when the
\* store delete fails the list is put back to what it was before the delete,
\* an error is shown and the call returns false; when it succeeds the row
\* stays out of the list and the call returns true.
C5_OptimisticDeleteWithRollback ==
    [][ /\ \A id \in 1..MaxTx :
              DeleteStarts(id) =>
                  /\ id \notin Ids(transactions')
                  /\ dels'[Len(dels')].previousTransactions = transactions
        /\ \A k \in DOMAIN dels :
              DeleteSettles(k) =>
                  IF store' = store /\ RowCount(store, dels[k].id) > 0
                  THEN \* the store kept the row: the delete failed
                       /\ ret'.value = FALSE
                       /\ transactions' = dels[k].previousTransactions
                       /\ error' \in {"Falha ao deletar: network",
                                      "Falha ao deletar: DELETE_BLOCKED_BY_RLS"}
                  ELSE RowCount(store, dels[k].id) > 0 =>
                       \* the store removed the row: the delete succeeded
                       /\ ret'.value = TRUE
                       /\ dels[k].id \notin Ids(transactions')
      ]_vars

(***************************************************************************)
(* SpecApi: api.createTransaction and api.deleteTransaction called on the  *)
(* owner's rows, for both stores.                                          *)
(***************************************************************************)
InitApi ==
    /\ backend \in {"supabase", "local"}
    /\ store \in InitialLists
    /\ transactions = <<>>
    /\ error = "none"
    /\ nextId = Len(store) + 1
    /\ adds = <<>>
    /\ dels = <<>>
    /\ ret = NoRet
    /\ run = NoRun
    /\ today = Today0
    /\ view = NoView
    /\ SignedIn

ApiCreateCall(data) ==
    /\ nextId <= MaxTx
    /\ store' = ApiCreateTransaction(store, data, nextId).store
    /\ nextId' = nextId + 1
    /\ view' = [kind |-> "create", id |-> nextId, rows |-> 1, fault |-> FALSE,
                ok |-> TRUE, message |-> ""]
    /\ UNCHANGED <<others, backend, transactions, error, adds, dels, ret, run, today>>

ApiDeleteCall(id, fault) ==
    /\ LET res == ApiDeleteTransaction(backend, store, id, fault)
       IN  /\ store' = res.store
           /\ view' = [kind |-> "delete", id |-> id, rows |-> RowCount(store, id),
                       fault |-> fault, ok |-> res.ok, message |-> res.message]
    /\ UNCHANGED <<others, backend, transactions, error, nextId, adds, dels, ret, run,
                   today>>

NextApi ==
    \/ \E data \in CandidatePool : ApiCreateCall(data)
    \/ \E id \in 1..MaxTx, fault \in BOOLEAN : ApiDeleteCall(id, fault)

SpecApi == InitApi /\ [][NextApi]_vars

\* C6: a store delete that matched no row is never reported as success, in
\* either store: the call fails, and with its own failure
\* (DELETE_BLOCKED_BY_RLS) when the store itself answered.
C6_ZeroRowsIsFailure ==
    (view.kind = "delete" /\ view.rows = 0) =>
        /\ view.ok = FALSE
        /\ view.fault = FALSE => view.message = "DELETE_BLOCKED_BY_RLS"

(***************************************************************************)
(* CategoryTrendChart: the useMemo that turns the list into chart rows and *)
(* series keys.  An object with string keys is a function on the set of    *)
(* its keys; Object.entries order is the order of first assignment.        *)
(***************************************************************************)
TopN == 5

\* (obj[key] || 0)
Get0(obj, key) == IF key \in DOMAIN obj THEN obj[key] ELSE 0

\* obj[key] = value
Put(obj, key, value) ==
    [k \in DOMAIN obj \cup {key} |-> IF k = key THEN value ELSE obj[k]]

ExpensesOnly(txs) == SelectSeq(txs, LAMBDA t : t.type = "expense")

\* categoryTotals[t.category] = (categoryTotals[t.category] || 0) + t.amount,
\* the entries kept in the order their keys were first assigned
AddCategoryTotal(entries, t) ==
    IF \E i \in DOMAIN entries : entries[i].cat = t.category
    THEN [i \in DOMAIN entries |->
             IF entries[i].cat = t.category
             THEN [cat |-> t.category, total |-> entries[i].total + t.amount]
             ELSE entries[i]]
    ELSE Append(entries, [cat |-> t.category, total |-> t.amount])

RECURSIVE CategoryTotalsFrom(_, _, _)
CategoryTotalsFrom(expenses, i, entries) ==
    IF i > Len(expenses) THEN entries
    ELSE CategoryTotalsFrom(expenses, i + 1, AddCategoryTotal(entries, expenses[i]))

\* Largest number looked for in a key that is written as a number.
MaxIndexKey == 40

\* The number a property key writes when it is an array index ("13" is 13),
\* -1 for any other key.
ArrayIndex(key) ==
    IF \E n \in 0..MaxIndexKey : ToString(n) = key
    THEN CHOOSE n \in 0..MaxIndexKey : ToString(n) = key
    ELSE -1

RECURSIVE IndexEntries(_, _)
IndexEntries(entries, positions) ==
    IF positions = {} THEN <<>>
    ELSE LET first == CHOOSE i \in positions :
                         \A j \in positions :
                             ArrayIndex(entries[i].cat) <= ArrayIndex(entries[j].cat)
         IN  <<entries[first]>> \o IndexEntries(entries, positions \ {first})

\* Object.entries / Object.keys of an object filled in the order of entries:
\* the keys that are array indices first, in ascending numeric order, then
\* the other keys in the order they were created.
ObjectEntries(entries) ==
    IndexEntries(entries, {i \in DOMAIN entries : ArrayIndex(entries[i].cat) >= 0})
        \o SelectSeq(entries, LAMBDA e : ArrayIndex(e.cat) < 0)

\* one step of the stable sort by (a, b) => b - a: e goes after every entry
\* whose total is not smaller
InsertDescending(sorted, e) ==
    LET before == {i \in DOMAIN sorted : sorted[i].total >= e.total}
        n == Cardinality(before)
    IN  SubSeq(sorted, 1, n) \o <<e>> \o SubSeq(sorted, n + 1, Len(sorted))

RECURSIVE SortDescendingFrom(_, _, _)
SortDescendingFrom(entries, i, sorted) ==
    IF i > Len(entries) THEN sorted
    ELSE SortDescendingFrom(entries, i + 1, InsertDescending(sorted, entries[i]))

Min(a, b) == IF a <= b THEN a ELSE b

TopCategories(expenses) ==
    LET sorted == SortDescendingFrom(
                      ObjectEntries(CategoryTotalsFrom(expenses, 1, <<>>)), 1, <<>>)
    IN  [i \in 1..Min(TopN, Len(sorted)) |-> sorted[i].cat]

Includes(seq, x) == \E i \in DOMAIN seq : seq[i] = x

\* t.date.substring(0, 7)
DateKey(date) == <<Year(date), Month(date)>>

\* the body of the second forEach
GroupStep(monthlyGroups, topCategories, t) ==
    LET dateKey == DateKey(t.date)
        group0 == IF dateKey \in DOMAIN monthlyGroups THEN monthlyGroups[dateKey]
                  ELSE [k \in {"total"} |-> 0]
        catKey == IF Includes(topCategories, t.category) THEN t.category
                  ELSE "Outros"
        group1 == Put(group0, catKey, Get0(group0, catKey) + t.amount)
        group2 == Put(group1, "total", group1["total"] + t.amount)
    IN  Put(monthlyGroups, dateKey, group2)

RECURSIVE MonthlyGroupsFrom(_, _, _, _)
MonthlyGroupsFrom(expenses, topCategories, i, monthlyGroups) ==
    IF i > Len(expenses) THEN monthlyGroups
    ELSE MonthlyGroupsFrom(expenses, topCategories, i + 1,
                           GroupStep(monthlyGroups, topCategories, expenses[i]))

\* Object.keys(monthlyGroups).sort() on 'YYYY-MM' strings
RECURSIVE SortedMonths(_)
SortedMonths(dateKeys) ==
    IF dateKeys = {} THEN <<>>
    ELSE LET first == CHOOSE a \in dateKeys :
                         \A b \in dateKeys :
                             12 * a[1] + a[2] <= 12 * b[1] + b[2]
         IN  <<first>> \o SortedMonths(dateKeys \ {first})

CategoryTrend(txs) ==
    LET expenses == ExpensesOnly(txs)
    IN  IF Len(expenses) = 0
        THEN [data |-> <<>>, keys |-> <<>>, topCategories |-> <<>>]
        ELSE LET topCategories == TopCategories(expenses)
                 monthlyGroups ==
                     MonthlyGroupsFrom(expenses, topCategories, 1, <<>>)
                 sortedMonths == SortedMonths(DOMAIN monthlyGroups)
                 chartData ==
                     [i \in DOMAIN sortedMonths |->
                         [dateKey |-> sortedMonths[i],
                          values |-> monthlyGroups[sortedMonths[i]]]]
                 hasOutros ==
                     \E i \in DOMAIN expenses :
                         ~Includes(topCategories, expenses[i].category)
                 finalKeys == IF hasOutros THEN Append(topCategories, "Outros")
                              ELSE topCategories
             IN  [data |-> chartData, keys |-> finalKeys,
                  topCategories |-> topCategories]

(***************************************************************************)
(* SpecTrend: the chart computed over lists of up to seven transactions in *)
(* up to seven categories and two months.                                  *)
(***************************************************************************)
MaxTrendAdd == 3

TrendDay1 == <<2024, 1, 15>>

TrendDay2 == <<2024, 2, 15>>

FiveCategories ==
    << Data("Aluguel", "expense", 500000, "Moradia", TrendDay1),
       Data("Mercado", "expense", 400000, "Alimentacao", TrendDay1),
       Data("Onibus", "expense", 300000, "Transporte", TrendDay1),
       Data("Cinema", "expense", 200000, "Lazer", TrendDay1),
       Data("Farmacia", "expense", 100000, "Saude", TrendDay1) >>

TrendSeeds == { <<>>, FiveCategories }

TrendPool ==
    { Data("Despesa", "expense", a, c, d) :
          a \in {150000, 600000},
          c \in {"Outros", "Utilidades", "Saude", "13"},
          d \in {TrendDay1, TrendDay2} }
    \cup { Data("Salario", "income", 1000000, "Salario", TrendDay1) }

TrendLists ==
    UNION {{Stored(seed \o f) : f \in [1..n -> TrendPool], seed \in TrendSeeds} :
           n \in 0..MaxTrendAdd}

InitTrend ==
    /\ backend = "local"
    /\ transactions \in TrendLists
    /\ store = transactions
    /\ error = "none"
    /\ nextId = Len(store) + 1
    /\ adds = <<>>
    /\ dels = <<>>
    /\ ret = NoRet
    /\ run = NoRun
    /\ today = Today0
    /\ view = NoView
    /\ SignedIn

ComputeCategoryTrend ==
    /\ view' = [kind |-> "trend", value |-> CategoryTrend(transactions)]
    /\ UNCHANGED <<others, backend, store, transactions, error, nextId, adds, dels,
                   ret, run, today>>

NextTrend == ComputeCategoryTrend

SpecTrend == InitTrend /\ [][NextTrend]_vars

\* positions of the expenses of month dateKey whose category is not selected
NotSelectedIn(txs, topCategories, dateKey) ==
    {i \in Expenses(txs) : /\ DateKey(txs[i].date) = dateKey
                           /\ ~Includes(topCategories, txs[i].category)}

\* C10: the category trend emits at most TopN + 1 distinct series keys, and
\* whenever some expense falls outside the top categories, every month row
\* carries under 'Outros' exactly the sum of that month's expenses whose
\* category is not among the selected top categories; this for any category
\* names, a user category called 'Outros' included.
C10_TrendKeysAndOther ==
    view.kind = "trend" =>
        LET trend == view.value
            top == trend.topCategories
        IN  /\ Cardinality({trend.keys[i] : i \in DOMAIN trend.keys}) <= TopN + 1
            /\ Len(trend.keys) > Len(top) =>
                  \A r \in DOMAIN trend.data :
                      Get0(trend.data[r].values, "Outros")
                          = SumOver(transactions,
                                    NotSelectedIn(transactions, top,
                                                  trend.data[r].dateKey))

\* positions of the expenses of category c
OfCategory(txs, c) == {i \in Expenses(txs) : txs[i].category = c}

\* the position where category c is first met in the list
FirstSeen(txs, c) ==
    CHOOSE i \in OfCategory(txs, c) : \A j \in OfCategory(txs, c) : i <= j

\* category d goes before category c: a larger total, or the same total and
\* met earlier in the list
GoesBefore(txs, d, c) ==
    LET totalD == SumOver(txs, OfCategory(txs, d))
        totalC == SumOver(txs, OfCategory(txs, c))
    IN  \/ totalD > totalC
        \/ totalD = totalC /\ FirstSeen(txs, d) < FirstSeen(txs, c)

\* C23: the named series are the 5 expense categories with the largest
\* all-time totals, a tie going to the category met first in the list,
\* whatever the category names are; no other category has a series of its
\* own.
C23_TopCategoriesByTotalThenFirstSeen ==
    view.kind = "trend" =>
        LET trend == view.value
            cats == {transactions[i].category : i \in Expenses(transactions)}
        IN  /\ \A c \in cats :
                  Includes(trend.topCategories, c)
                      <=> Cardinality({d \in cats : GoesBefore(transactions, d, c)}) < 5
            /\ \A k \in DOMAIN trend.keys :
                  Includes(trend.topCategories, trend.keys[k])
                      \/ trend.keys[k] = "Outros"

(***************************************************************************)
(* Statements about financialReport's month figures (SpecAgg).             *)
(***************************************************************************)
\* C17: previousClosingBalance is the signed sum (income positive, expense
\* negative) of exactly the transactions dated before the first day of
\* today's calendar month, whatever earlier month or year they are in.
C17_ClosingBalanceBeforeMonth ==
    view.kind = "report" =>
        view.value.previousClosingBalance
            = SignedSum(transactions, BeforeMonthOf(transactions, today))

C17_Witness ==
    /\ view.kind = "report"
    /\ today = <<2024, 3, 31>>
    /\ \E i, j \in BeforeMonthOf(transactions, today) :
          /\ Year(transactions[i].date) = 2023
          /\ transactions[j].date = <<2024, 1, 5>>
          /\ transactions[i].type # transactions[j].type
    /\ InMonthOf(transactions, today) # {}
    /\ view.value.previousClosingBalance > 0

\* the calendar month before the month of now, as one number
YearMonthBefore(now) == YearMonth(now) - 1

InMonthBefore(txs, now) ==
    {i \in DOMAIN txs : YearMonth(txs[i].date) = YearMonthBefore(now)}

\* C18: for every reference date, currentMonth sums exactly the transactions
\* of today's (year, month), previousMonth exactly those of the calendar
\* month just before it, and each balance is income - expenses.
C18_MonthFigures ==
    view.kind = "report" =>
        LET cur == InMonthOf(transactions, today)
            prv == InMonthBefore(transactions, today)
            r == view.value
        IN  /\ r.currentMonth.income = SumOver(transactions, cur \cap Incomes(transactions))
            /\ r.currentMonth.expenses = SumOver(transactions, cur \cap Expenses(transactions))
            /\ r.currentMonth.balance = r.currentMonth.income - r.currentMonth.expenses
            /\ r.previousMonth.income = SumOver(transactions, prv \cap Incomes(transactions))
            /\ r.previousMonth.expenses = SumOver(transactions, prv \cap Expenses(transactions))
            /\ r.previousMonth.balance = r.previousMonth.income - r.previousMonth.expenses

(***************************************************************************)
(* BudgetProgress: budgetStats, the utilization rows of today's month.     *)
(* A percentage is kept as the exact fraction num / den in lowest terms.   *)
(***************************************************************************)
\* t.type === 'expense' and year === currentYear && month === currentMonth
IsCurrentMonthExpense(t, now) ==
    /\ t.type = "expense"
    /\ Year(t.date) = Year(now)
    /\ Month(t.date) = GetMonth(now) + 1

CurrentMonthTx(txs, now) == SelectSeq(txs, LAMBDA t : IsCurrentMonthExpense(t, now))

\* spendByCategory, its entries in the order the keys were first assigned
SpendByCategory(currentMonthTx) ==
    ObjectEntries(CategoryTotalsFrom(currentMonthTx, 1, <<>>))

\* new Set([...]): the values in order, each one once
RECURSIVE Distinct(_, _, _)
Distinct(values, i, kept) ==
    IF i > Len(values) THEN kept
    ELSE Distinct(values, i + 1,
                  IF Includes(kept, values[i]) THEN kept
                  ELSE Append(kept, values[i]))

ActiveCategories(spend, bs) ==
    Distinct([i \in DOMAIN spend |-> spend[i].cat]
             \o [i \in DOMAIN bs |-> bs[i].category], 1, <<>>)

\* spendByCategory[category] || 0
SpentOf(spend, category) ==
    IF \E i \in DOMAIN spend : spend[i].cat = category
    THEN spend[CHOOSE i \in DOMAIN spend : spend[i].cat = category].total
    ELSE 0

\* budgets.find(b => b.category === category): the first one, if any
LimitOf(bs, category) ==
    LET found == {i \in DOMAIN bs : bs[i].category = category}
    IN  IF found = {} THEN 0
        ELSE bs[CHOOSE i \in found : \A j \in found : i <= j].amount

RECURSIVE Gcd(_, _)
Gcd(a, b) == IF b = 0 THEN a ELSE Gcd(b, a % b)

\* the number num / den (den > 0, num >= 0), in lowest terms
Fraction(num, den) ==
    [num |-> num \div Gcd(num, den), den |-> den \div Gcd(num, den)]

PercentageWithoutHundred(spent, limit) ==
    IF limit > 0 THEN Fraction(spent, limit) ELSE Fraction(0, 1)

\* limit > 0 ? (spent / limit) * 100 : 0
Percentage(spent, limit) ==
    IF limit > 0 THEN Fraction(spent * 100, limit) ELSE Fraction(0, 1)

BudgetRow(spend, bs, category) ==
    LET spent == SpentOf(spend, category)
        limit == LimitOf(bs, category)
    IN  [category |-> category, spent |-> spent, limit |-> limit,
         percentage |-> Percentage(spent, limit)]

KeepRowSpentOnly(item) == item.spent > 0

\* item => item.spent > 0 || item.limit > 0
KeepRow(item) == item.spent > 0 \/ item.limit > 0

\* one step of the stable sort by (a, b) => b.percentage - a.percentage
InsertByPercentage(sorted, item) ==
    LET before == {i \in DOMAIN sorted :
                      sorted[i].percentage.num * item.percentage.den
                          >= item.percentage.num * sorted[i].percentage.den}
        n == Cardinality(before)
    IN  SubSeq(sorted, 1, n) \o <<item>> \o SubSeq(sorted, n + 1, Len(sorted))

RECURSIVE SortByPercentageFrom(_, _, _)
SortByPercentageFrom(items, i, sorted) ==
    IF i > Len(items) THEN sorted
    ELSE SortByPercentageFrom(items, i + 1, InsertByPercentage(sorted, items[i]))

BudgetStats(txs, bs, now) ==
    LET spend == SpendByCategory(CurrentMonthTx(txs, now))
        active == ActiveCategories(spend, bs)
        rows == [i \in DOMAIN active |-> BudgetRow(spend, bs, active[i])]
    IN  SortByPercentageFrom(SelectSeq(rows, KeepRow), 1, <<>>)

(***************************************************************************)
(* SpecBudgetView: budgetStats over transaction lists and budget lists.    *)
(***************************************************************************)
MaxBudgetTx == 2

MaxBudgets == 2

Budget(category, amount) == [category |-> category, amount |-> amount]

BudgetTxPool ==
    { Data("Despesa", "expense", a, c, d) :
          a \in {50000, 150000},
          c \in {"Alimentacao", "Lazer"},
          d \in {<<2024, 2, 1>>, <<2024, 1, 20>>, <<2023, 2, 5>>} }
    \cup { Data("Reembolso", "income", 50000, "Lazer", <<2024, 2, 3>>) }

BudgetTxLists ==
    UNION {{Stored(f) : f \in [1..n -> BudgetTxPool]} : n \in 0..MaxBudgetTx}

BudgetPool ==
    { Budget(c, a) : c \in {"Alimentacao", "Lazer", "Moradia"}, a \in {0, 100000} }

\* One budget per category at most, as saveBudget keeps them.
BudgetLists ==
    UNION {{f \in [1..n -> BudgetPool] :
               \A i, j \in 1..n : i # j => f[i].category # f[j].category} :
           n \in 0..MaxBudgets}

InitBudgetView ==
    /\ backend = "local"
    /\ transactions \in BudgetTxLists
    /\ store = transactions
    /\ error = "none"
    /\ nextId = Len(store) + 1
    /\ adds = <<>>
    /\ dels = <<>>
    /\ ret = NoRet
    /\ run = NoRun
    /\ today = Today0
    /\ view = NoView
    /\ user = "u1"
    /\ budgets \in BudgetLists
    /\ budgetStore = budgets
    /\ categories = <<>>
    /\ loads = <<>>
    /\ saves = <<>>
    /\ upds = <<>>
    /\ timeOfDay = 0
    /\ modal = NoModal

ComputeBudgetStats ==
    /\ view' = [kind |-> "budget", value |-> BudgetStats(transactions, budgets, today)]
    /\ UNCHANGED <<others, backend, store, transactions, error, nextId, adds,
                   dels, ret, run, today>>

NextBudgetView == ComputeBudgetStats

SpecBudgetView == InitBudgetView /\ [][NextBudgetView]_vars

\* positions of the expenses of category dated in the month of now
SpentIn(txs, category, now) ==
    {i \in Expenses(txs) \cap InMonthOf(txs, now) : txs[i].category = category}

Budgeted(bs, category) == \E i \in DOMAIN bs : bs[i].category = category

\* the configured amount of category, 0 without a budget
Configured(bs, category) ==
    IF Budgeted(bs, category)
    THEN bs[CHOOSE i \in DOMAIN bs : bs[i].category = category].amount
    ELSE 0

AllCategories ==
    {transactions[i].category : i \in DOMAIN transactions}
    \cup {budgets[i].category : i \in DOMAIN budgets}

\* C11: in every utilization row, percentage = (spent / limit) x 100 when
\* limit > 0 and 0 otherwise; a category with spend this month and a limit
\* of 0, or no budget, still has its row: real spent, limit 0, percentage 0.
C11_Percentage ==
    view.kind = "budget" =>
        /\ \A r \in DOMAIN view.value :
              LET row == view.value[r]
              IN  /\ row.limit = Configured(budgets, row.category)
                  /\ row.percentage.den > 0
                  /\ row.limit > 0 =>
                         row.percentage.num * row.limit
                             = row.spent * 100 * row.percentage.den
                  /\ row.limit <= 0 => row.percentage.num = 0
        /\ \A c \in AllCategories :
              LET spent == SumOver(transactions, SpentIn(transactions, c, today))
              IN  (spent > 0 /\ Configured(budgets, c) = 0) =>
                      \E r \in DOMAIN view.value :
                          /\ view.value[r].category = c
                          /\ view.value[r].spent = spent
                          /\ view.value[r].limit = 0
                          /\ view.value[r].percentage.num = 0

C11_Witness ==
    /\ view.kind = "budget"
    /\ Len(view.value) = 2
    /\ view.value[1].limit = 100000
    /\ view.value[1].spent = 150000
    /\ view.value[1].percentage = [num |-> 150, den |-> 1]
    /\ view.value[2].spent = 50000
    /\ view.value[2].limit = 0
    /\ Budgeted(budgets, view.value[2].category)
    /\ view.value[2].percentage.num = 0

\* C12: the budget evaluation has exactly one row per category that has
\* expense spend > 0 in today's calendar month or a budget with limit > 0,
\* and none for any other category; spent sums only the expenses whose
\* (year, month) is today's.
C12_RowsAreActiveCategories ==
    view.kind = "budget" =>
        /\ \A r, q \in DOMAIN view.value :
              view.value[r].category = view.value[q].category => r = q
        /\ {view.value[r].category : r \in DOMAIN view.value}
               = {c \in AllCategories :
                     \/ SumOver(transactions, SpentIn(transactions, c, today)) > 0
                     \/ Configured(budgets, c) > 0}
        /\ \A r \in DOMAIN view.value :
              view.value[r].spent
                  = SumOver(transactions,
                            SpentIn(transactions, view.value[r].category, today))

C12_Witness ==
    /\ view.kind = "budget"
    /\ {view.value[r].category : r \in DOMAIN view.value} = {"Alimentacao", "Moradia"}
    /\ Budgeted(budgets, "Lazer")
    /\ \E i \in DOMAIN transactions :
          /\ transactions[i].category = "Lazer"
          /\ transactions[i].type = "expense"
    /\ \E r \in DOMAIN view.value :
          /\ view.value[r].category = "Moradia"
          /\ view.value[r].spent = 0
    /\ \E r \in DOMAIN view.value :
          /\ view.value[r].category = "Alimentacao"
          /\ view.value[r].limit = 0

(***************************************************************************)
(* Budgets: saveBudget and api.upsertBudget.                               *)
(***************************************************************************)
\* The budget api.upsertBudget returns (its store-assigned id is not read).
SavedBudget(userId, category, amount) ==
    [userId |-> userId, category |-> category, amount |-> amount]

\* index of the first budget of category, 0 for findIndex's -1
FindIndex(bs, category) ==
    LET found == {i \in DOMAIN bs : bs[i].category = category}
    IN  IF found = {} THEN 0 ELSE CHOOSE i \in found : \A j \in found : i <= j

\* api.upsertBudget. Supabase: an upsert on the key (user_id, category), the
\* row is updated when it exists and inserted otherwise; an error throws.
\* Local storage: the first budget of the category gets the new amount, or
\* a new budget is pushed.
ApiUpsertBudget(be, st, userId, category, amount, fault) ==
    LET index == FindIndex(st, category)
    IN  IF be = "supabase" /\ fault
        THEN [ok |-> FALSE, store |-> st]
        ELSE [ok |-> TRUE,
              budget |-> SavedBudget(userId, category, amount),
              store |-> IF index > 0
                        THEN IF be = "supabase"
                             THEN [st EXCEPT ![index] =
                                      SavedBudget(userId, category, amount)]
                             ELSE [st EXCEPT ![index].amount = amount]
                        ELSE Append(st, SavedBudget(userId, category, amount))]

SetBudgetsAlwaysAppend(prev, savedBudget) == Append(prev, savedBudget)

\* The updater saveBudget passes to setBudgets.
SetBudgets(prev, savedBudget) ==
    LET index == FindIndex(prev, savedBudget.category)
    IN  IF index > 0 THEN [prev EXCEPT ![index] = savedBudget]
        ELSE Append(prev, savedBudget)

(***************************************************************************)
(* SpecBudget: saveBudget calls, several of them in flight.                *)
(***************************************************************************)
MaxSaves == 2

\* Completed saveBudget calls in one behaviour.
MaxSaved == 4

BudgetCategories == {"Alimentacao", "Lazer"}

BudgetAmounts == {100000, 200000}

OwnedBudgetLists ==
    { <<>>,
      <<SavedBudget("u1", "Alimentacao", 100000)>>,
      <<SavedBudget("u1", "Lazer", 200000), SavedBudget("u1", "Alimentacao", 100000)>> }

InitBudget ==
    /\ backend \in {"supabase", "local"}
    /\ store = <<>>
    /\ transactions = <<>>
    /\ error = "none"
    /\ nextId = 1
    /\ adds = <<>>
    /\ dels = <<>>
    /\ ret = NoRet
    /\ run = NoRun
    /\ today = Today0
    /\ view = NoView
    /\ user = "u1"
    /\ budgetStore \in OwnedBudgetLists
    /\ budgets = budgetStore
    /\ categories = <<>>
    /\ loads = <<>>
    /\ saves = <<>>
    /\ upds = <<>>
    /\ timeOfDay = 0
    /\ modal = NoModal

\* saveBudget up to its await: the error is cleared and api.upsertBudget is
\* called for the signed-in owner.
SaveBudget(category, amount) ==
    /\ user # "none"
    /\ Len(saves) < MaxSaves
    /\ nextId <= MaxSaved
    /\ saves' = Append(saves, [userId |-> user, category |-> category,
                               amount |-> amount])
    /\ error' = "none"
    /\ UNCHANGED <<backend, store, transactions, nextId, adds, dels, ret, run,
                   today, view, user, budgets, categories, budgetStore, loads,
                   upds, timeOfDay, modal>>

\* saveBudget after its await: the saved budget replaces the one of its
\* category in the list or is appended; a failure is reported.
SaveBudgetSettle(k, fault) ==
    /\ LET call == saves[k]
           res == ApiUpsertBudget(backend, budgetStore, call.userId,
                                  call.category, call.amount, fault)
       IN  /\ budgetStore' = res.store
           /\ budgets' = IF res.ok THEN SetBudgets(budgets, res.budget) ELSE budgets
           /\ error' = IF res.ok THEN error ELSE "Falha ao salvar orcamento"
           /\ ret' = [op |-> "saveBudget", id |-> 0, value |-> res.ok,
                      category |-> call.category, amount |-> call.amount]
           /\ saves' = RemoveAt(saves, k)
    /\ nextId' = nextId + 1
    /\ UNCHANGED <<backend, store, transactions, adds, dels, run, today, view,
                   user, categories, loads, upds, timeOfDay, modal>>

NextBudget ==
    \/ \E category \in BudgetCategories, amount \in BudgetAmounts :
           SaveBudget(category, amount)
    \/ \E k \in DOMAIN saves, fault \in BOOLEAN : SaveBudgetSettle(k, fault)

SpecBudget == InitBudget /\ [][NextBudget]_vars

OnePerCategory(bs) ==
    \A i, j \in DOMAIN bs : bs[i].category = bs[j].category => i = j

\* C15: after any sequence of saveBudget calls, repeated and overlapping
\* ones for one category included, the in-memory budget list and the
\* owner's stored budget list each hold at most one budget per category.
C15_OneBudgetPerCategory ==
    OnePerCategory(budgets) /\ OnePerCategory(budgetStore)

\* A save of a category has completed while another save of the same
\* category, with another amount, is still in flight.
C15_Witness ==
    /\ ret.op = "saveBudget"
    /\ ret.value
    /\ \E k \in DOMAIN saves :
          /\ saves[k].category = ret.category
          /\ saves[k].amount # ret.amount
    /\ \E i \in DOMAIN budgets :
          /\ budgets[i].category = ret.category
          /\ budgets[i].amount = ret.amount
    /\ Len(budgets) = 2
    /\ Len(budgetStore) = 2
    /\ nextId > 3

(***************************************************************************)
(* The session and its owner: useEffect([user]) and loadData.              *)
(* In SpecSession store and budgetStore are the tables of all owners, each *)
(* row carrying the userId of its owner; a fetch selects the owner's rows. *)
(***************************************************************************)
Owners == {"u1", "u2"}

\* A row as a fetch returns it: with the userId of its owner.
Owned(userId, row) == [userId |-> userId] @@ row

\* api.fetchTransactions: .eq('user_id', userId) (the tables below are kept
\* in the order the query asks for, newest date first)
ApiFetchTransactions(st, userId) == SelectSeq(st, LAMBDA t : t.userId = userId)

\* api.fetchBudgets: .eq('user_id', userId)
ApiFetchBudgets(st, userId) == SelectSeq(st, LAMBDA b : b.userId = userId)

CategoryItem(name, type, userId) == [name |-> name, type |-> type, userId |-> userId]

\* api.fetchCategories: the owner's categories, seeded from
\* DEFAULT_CATEGORIES for an owner who has none (two of them suffice here).
ApiFetchCategories(userId) ==
    << CategoryItem("Salario", "income", userId),
       CategoryItem("Moradia", "expense", userId) >>

TransactionTables ==
    { <<>>,
      << Owned("u1", Mercado(1, 200000, D1)) >>,
      << Owned("u2", Mercado(2, 200009, D2)), Owned("u1", Mercado(1, 200000, D1)) >>,
      << Owned("u2", Mercado(2, 200009, D2)) >> }

BudgetTables ==
    { <<>>,
      << SavedBudget("u1", "Alimentacao", 100000),
         SavedBudget("u2", "Alimentacao", 200000) >> }

\* In-flight loadData calls.
MaxLoads == 2

\* Before anybody signs in: AuthProvider's user is null and the effect has
\* emptied the three lists.
InitSession ==
    /\ backend = "supabase"
    /\ store \in TransactionTables
    /\ budgetStore \in BudgetTables
    /\ user = "none"
    /\ transactions = <<>>
    /\ budgets = <<>>
    /\ categories = <<>>
    /\ loads = <<>>
    /\ error = "none"
    /\ nextId = 3
    /\ adds = <<>>
    /\ dels = <<>>
    /\ ret = NoRet
    /\ run = NoRun
    /\ today = Today0
    /\ view = NoView
    /\ saves = <<>>
    /\ upds = <<>>
    /\ timeOfDay = 0
    /\ modal = NoModal

\* onAuthStateChange with a session, then the effect on [user]: loadData
\* starts for the new owner (it clears the error and awaits the fetches).
SignIn(u) ==
    /\ user = "none"
    /\ Len(loads) < MaxLoads
    /\ user' = u
    /\ loads' = Append(loads, u)
    /\ error' = "none"
    /\ UNCHANGED <<backend, store, budgetStore, transactions, budgets, categories,
                   nextId, adds, dels, ret, run, today, view, saves, upds,
                   timeOfDay, modal>>

\* onAuthStateChange without a session, then the effect on [user]: the
\* three lists are emptied.
SignOut ==
    /\ user # "none"
    /\ user' = "none"
    /\ transactions' = <<>>
    /\ budgets' = <<>>
    /\ categories' = <<>>
    /\ UNCHANGED <<backend, store, budgetStore, loads, error, nextId, adds, dels,
                   ret, run, today, view, saves, upds, timeOfDay, modal>>

\* What loadData puts in a list when its fetches are back.
Loaded(current, userId, fetched) == fetched

\* loadData after Promise.all: the three lists are set, or the error is.
LoadDataSettle(k, fault) ==
    /\ LET userId == loads[k]
       IN  IF fault
           THEN /\ error' = "Falha ao carregar dados"
                /\ UNCHANGED <<transactions, budgets, categories>>
           ELSE /\ transactions' =
                       Loaded(transactions, userId, ApiFetchTransactions(store, userId))
                /\ budgets' =
                       Loaded(budgets, userId, ApiFetchBudgets(budgetStore, userId))
                /\ categories' =
                       Loaded(categories, userId, ApiFetchCategories(userId))
                /\ error' = error
    /\ loads' = RemoveAt(loads, k)
    /\ UNCHANGED <<backend, store, budgetStore, user, nextId, adds, dels, ret,
                   run, today, view, saves, upds, timeOfDay, modal>>

NextSession ==
    \/ \E u \in Owners : SignIn(u)
    \/ SignOut
    \/ \E k \in DOMAIN loads, fault \in BOOLEAN : LoadDataSettle(k, fault)

SpecSession == InitSession /\ [][NextSession]_vars

OnlyOf(rows, u) == \A i \in DOMAIN rows : rows[i].userId = u

RECURSIVE DaysBeforeMonth(_, _)
DaysBeforeMonth(y, m) ==
    IF m = 1 THEN 0 ELSE DaysBeforeMonth(y, m - 1) + DaysInMonth(y, m - 1)

\* the number of the day in the calendar, day 1 being Monday 0001-01-01
DayNumber(date) ==
    LET y == Year(date) - 1
    IN  365 * y + (y \div 4) - (y \div 100) + (y \div 400)
        + DaysBeforeMonth(Year(date), Month(date)) + Day(date)

\* Date.getDay(): 0 = Sunday
GetDay(date) == DayNumber(date) % 7

\* new Date(year, monthIndex, day) for day >= 1: a month index past 11 goes
\* into the next year, a day past the end of the month into the next month.
RECURSIVE NewDate(_, _, _)
NewDate(year, monthIndex, day) ==
    IF monthIndex > 11 THEN NewDate(year + 1, monthIndex - 12, day)
    ELSE IF day > DaysInMonth(year, monthIndex + 1)
         THEN NewDate(year, monthIndex + 1, day - DaysInMonth(year, monthIndex + 1))
         ELSE <<year, monthIndex + 1, day>>

\* Math.ceil(a / b) for b > 0
Ceil(a, b) == 0 - ((0 - a) \div b)

MinutesPerDay == 1440

(***************************************************************************)
(* SubscriptionsView: processedSubs, the next due date of each recurring   *)
(* expense.  An instant is a date with the minutes since its midnight.     *)
(***************************************************************************)
\* transactions.filter(t => t.type === 'expense' && t.isRecurring)
Subscriptions(txs) == SelectSeq(txs, LAMBDA t : t.type = "expense" /\ t.isRecurring)

MonthlyDueThisMonth(day, now) == NewDate(Year(now), GetMonth(now), day)

\* the monthly branch
MonthlyDue(day, now) ==
    IF day < Day(now)
    THEN NewDate(Year(now), GetMonth(now) + 1, day)
    ELSE NewDate(Year(now), GetMonth(now), day)

WeeklyDiffSameDayToday(anchor, now) ==
    LET diff == GetDay(anchor) - GetDay(now)
    IN  IF diff < 0 THEN diff + 7 ELSE diff

\* diff = dayOfWeek - todayDayOfWeek; if (diff <= 0) diff += 7
WeeklyDiff(anchor, now) ==
    LET diff == GetDay(anchor) - GetDay(now)
    IN  IF diff <= 0 THEN diff + 7 ELSE diff

\* nextDueDate: midnight of the due day for a monthly expense; for any
\* other frequency today's instant moved forward by diff days.
NextDueDate(sub, now, minutes) ==
    IF sub.frequency = "monthly"
    THEN [date |-> MonthlyDue(Day(sub.date), now), minutes |-> 0]
    ELSE [date |-> NewDate(Year(now), GetMonth(now),
                           Day(now) + WeeklyDiff(sub.date, now)),
          minutes |-> minutes]

\* nextDueDate.getTime() - today.getTime(), in minutes
TimeDiff(due, now, minutes) ==
    (DayNumber(due.date) - DayNumber(now)) * MinutesPerDay
    + due.minutes - minutes

ProcessedSub(sub, now, minutes) ==
    LET nextDueDate == NextDueDate(sub, now, minutes)
        daysUntil == Ceil(TimeDiff(nextDueDate, now, minutes), MinutesPerDay)
    IN  [sub |-> sub, nextDueDate |-> nextDueDate, daysUntil |-> daysUntil,
         isDueSoon |-> (daysUntil >= 0 /\ daysUntil <= 3)]

\* one step of the stable sort by (a, b) => a.daysUntil - b.daysUntil
InsertByDaysUntil(sorted, item) ==
    LET before == {i \in DOMAIN sorted : sorted[i].daysUntil <= item.daysUntil}
        n == Cardinality(before)
    IN  SubSeq(sorted, 1, n) \o <<item>> \o SubSeq(sorted, n + 1, Len(sorted))

RECURSIVE SortByDaysUntilFrom(_, _, _)
SortByDaysUntilFrom(items, i, sorted) ==
    IF i > Len(items) THEN sorted
    ELSE SortByDaysUntilFrom(items, i + 1, InsertByDaysUntil(sorted, items[i]))

ProcessedSubs(txs, now, minutes) ==
    LET subs == Subscriptions(txs)
        rows == [i \in DOMAIN subs |-> ProcessedSub(subs[i], now, minutes)]
    IN  SortByDaysUntilFrom(rows, 1, <<>>)

(***************************************************************************)
(* SpecSubs: processedSubs over lists of recurring expenses, with anchors  *)
(* on every weekday and on days 28 to 31.                                  *)
(***************************************************************************)
MaxSubs == 2

Recurring(t, frequency) ==
    [t EXCEPT !.isRecurring = TRUE, !.frequency = frequency]

Anchors ==
    { <<2024, 1, 28>>, <<2024, 1, 29>>, <<2024, 1, 30>>, <<2024, 1, 31>>,
      <<2024, 2, 1>>, <<2024, 2, 2>>, <<2024, 2, 10>>, <<2024, 2, 29>> }

SubsPool ==
    { Recurring(Tx(0, "Assinatura", "expense", 50000, "Lazer", d), f) :
          d \in Anchors, f \in {"weekly", "monthly"} }
    \cup { Tx(0, "Mercado", "expense", 200000, "Alimentacao", <<2024, 2, 1>>),
           Recurring(Tx(0, "Salario", "income", 1000000, "Salario", <<2024, 2, 1>>),
                     "monthly") }

SubsLists ==
    UNION {{[i \in 1..n |-> [f[i] EXCEPT !.id = i]] : f \in [1..n -> SubsPool]} :
           n \in 0..MaxSubs}

SubsTodays ==
    { <<2024, 2, 10>>, <<2024, 1, 31>>, <<2023, 12, 31>>, <<2024, 2, 29>>,
      <<2024, 4, 30>>, <<2023, 2, 27>>, <<2024, 11, 29>> }

InitSubs ==
    /\ backend = "local"
    /\ transactions \in SubsLists
    /\ store = transactions
    /\ error = "none"
    /\ nextId = Len(store) + 1
    /\ adds = <<>>
    /\ dels = <<>>
    /\ ret = NoRet
    /\ run = NoRun
    /\ today \in SubsTodays
    /\ timeOfDay \in {0, 750}
    /\ modal = NoModal
    /\ view = NoView
    /\ user = "u1"
    /\ budgets = <<>>
    /\ categories = <<>>
    /\ budgetStore = <<>>
    /\ loads = <<>>
    /\ saves = <<>>
    /\ upds = <<>>

ComputeProcessedSubs ==
    /\ view' = [kind |-> "subs",
                value |-> ProcessedSubs(transactions, today, timeOfDay)]
    /\ UNCHANGED <<others, backend, store, transactions, error, nextId, adds,
                   dels, ret, run, today>>

NextSubs == ComputeProcessedSubs

SpecSubs == InitSubs /\ [][NextSubs]_vars

\* date is a day of the calendar
IsCalendarDate(date) ==
    /\ Month(date) \in 1..12
    /\ Day(date) \in 1..DaysInMonth(Year(date), Month(date))

NextMonthDay(now, d) ==
    IF Month(now) = 12 THEN <<Year(now) + 1, 1, d>> ELSE <<Year(now), Month(now) + 1, d>>

\* C19: for a monthly recurring expense with anchor day d: when d is after
\* today's day of the month the next due date is day d of the current
\* month; otherwise, d equal to today's day included, it is day d of the
\* next month (stated for the months that have a day d).
C19_MonthlyDueDate ==
    view.kind = "subs" =>
        \A r \in DOMAIN view.value :
            LET row == view.value[r]
                d == Day(row.sub.date)
                thisMonth == <<Year(today), Month(today), d>>
                nextMonth == NextMonthDay(today, d)
            IN  row.sub.frequency = "monthly" =>
                    IF d > Day(today)
                    THEN IsCalendarDate(thisMonth) => row.nextDueDate.date = thisMonth
                    ELSE IsCalendarDate(nextMonth) => row.nextDueDate.date = nextMonth

\* C20: for a weekly recurring expense with anchor weekday w and today's
\* weekday t, the next due date is today + (w - t) days when w > t and
\* today + (w - t + 7) days otherwise: 1 to 7 days after today, on weekday w.
C20_WeeklyDueDate ==
    view.kind = "subs" =>
        \A r \in DOMAIN view.value :
            LET row == view.value[r]
                w == GetDay(row.sub.date)
                t == GetDay(today)
                ahead == DayNumber(row.nextDueDate.date) - DayNumber(today)
            IN  row.sub.frequency = "weekly" =>
                    /\ IsCalendarDate(row.nextDueDate.date)
                    /\ ahead = (IF w > t THEN w - t ELSE w - t + 7)
                    /\ ahead \in 1..7
                    /\ GetDay(row.nextDueDate.date) = w
                    /\ row.daysUntil = ahead

\* A weekly expense anchored on today's weekday, due in 7 days across the
\* end of the year, and one due the next day.
C20_Witness ==
    /\ view.kind = "subs"
    /\ today = <<2023, 12, 31>>
    /\ Len(view.value) = 2
    /\ view.value[1].sub.frequency = "weekly"
    /\ view.value[1].sub.date = <<2024, 1, 29>>
    /\ view.value[1].nextDueDate.date = <<2024, 1, 1>>
    /\ view.value[1].daysUntil = 1
    /\ view.value[2].sub.frequency = "weekly"
    /\ view.value[2].sub.date = <<2024, 1, 28>>
    /\ view.value[2].nextDueDate.date = <<2024, 1, 7>>
    /\ view.value[2].daysUntil = 7

(***************************************************************************)
(* The transaction form, updateTransaction and convert-to-recurring.       *)
(* The text of an input field is a sequence of characters.                 *)
(***************************************************************************)
DigitChars == <<"0", "1", "2", "3", "4", "5", "6", "7", "8", "9">>

IsDigit(c) == \E i \in DOMAIN DigitChars : DigitChars[i] = c

DigitValue(c) == (CHOOSE i \in DOMAIN DigitChars : DigitChars[i] = c) - 1

\* how many digits text has from position i on
RECURSIVE DigitRun(_, _)
DigitRun(text, i) ==
    IF i <= Len(text) /\ IsDigit(text[i]) THEN 1 + DigitRun(text, i + 1) ELSE 0

\* the number written by the digits text[i..i+n-1]
RECURSIVE DigitsValue(_, _, _)
DigitsValue(text, i, n) ==
    IF n = 0 THEN 0
    ELSE 10 * DigitsValue(text, i, n - 1) + DigitValue(text[i + n - 1])

\* thousandths written by up to three decimals text[i..i+n-1]
Thousandths(text, i, n) ==
    IF n = 0 THEN 0
    ELSE IF n = 1 THEN 100 * DigitsValue(text, i, 1)
    ELSE IF n = 2 THEN 10 * DigitsValue(text, i, 2)
    ELSE DigitsValue(text, i, 3)

\* parseFloat: an optional sign, digits, an optional point and decimals;
\* what follows is ignored; NaN when there is no digit at all.
ParseFloat(text) ==
    LET signed == Len(text) >= 1 /\ text[1] \in {"-", "+"}
        start == IF signed THEN 2 ELSE 1
        whole == DigitRun(text, start)
        point == start + whole
        decimals == IF point <= Len(text) /\ text[point] = "."
                    THEN DigitRun(text, point + 1) ELSE 0
        magnitude == 1000 * DigitsValue(text, start, whole)
                     + Thousandths(text, point + 1, decimals)
    IN  IF whole + decimals = 0 THEN [nan |-> TRUE, value |-> 0]
        ELSE [nan |-> FALSE,
              value |-> IF signed /\ text[1] = "-" THEN 0 - magnitude ELSE magnitude]

\* handleSubmit goes on: !(!description || isNaN(parsedAmount) || parsedAmount <= 0)
SubmitAccepts(description, amountText) ==
    ~(\/ description = ""
      \/ ParseFloat(amountText).nan
      \/ ParseFloat(amountText).value <= 0)

SubmittedKeepsFrequency(description, amountText, isRecurring, frequency) ==
    [description |-> description, type |-> "expense",
     amount |-> ParseFloat(amountText).value, category |-> "Alimentacao",
     date |-> D1, isRecurring |-> isRecurring, frequency |-> frequency]

\* What handleSubmit passes to onSave (type, category and date as the form
\* holds them; frequency: isRecurring ? frequency : undefined).
Submitted(description, amountText, isRecurring, frequency) ==
    [description |-> description, type |-> "expense",
     amount |-> ParseFloat(amountText).value, category |-> "Alimentacao",
     date |-> D1, isRecurring |-> isRecurring,
     frequency |-> IF isRecurring THEN frequency ELSE "none"]

\* The row a Supabase update leaves: the seven columns it sets.
UpdatedColumns(t, updates) ==
    [t EXCEPT !.description = updates.description,
              !.amount = updates.amount,
              !.type = updates.type,
              !.category = updates.category,
              !.date = updates.date,
              !.isRecurring = OrFalse(updates, "isRecurring"),
              !.frequency = OrNone(updates, "frequency")]

\* { ...t, ...updates }
Spread(t, updates) ==
    [f \in DOMAIN t |-> IF f \in DOMAIN updates THEN updates[f] ELSE t[f]]

\* api.updateTransaction: the owner's row id is rewritten and returned; it
\* throws when the store fails or has no such row.
ApiUpdateTransaction(be, st, id, updates, fault) ==
    IF (be = "supabase" /\ fault) \/ RowCount(st, id) = 0
    THEN [ok |-> FALSE, store |-> st]
    ELSE LET changed(t) == IF be = "supabase" THEN UpdatedColumns(t, updates)
                           ELSE Spread(t, updates)
             index == CHOOSE i \in DOMAIN st : st[i].id = id
         IN  [ok |-> TRUE, row |-> changed(st[index]),
              store |-> [i \in DOMAIN st |->
                            IF st[i].id = id THEN changed(st[i]) ELSE st[i]]]

\* updateTransaction calls in flight.
MaxUpds == 1

\* updateTransaction up to its await.
UpdateTransaction(id, updates) ==
    /\ Len(upds) < MaxUpds
    /\ upds' = Append(upds, [id |-> id, updates |-> updates])
    /\ error' = "none"
    /\ UNCHANGED <<backend, store, transactions, nextId, adds, dels, ret, run,
                   today, view, user, budgets, categories, budgetStore, loads,
                   saves, timeOfDay, modal>>

\* updateTransaction after its await: the returned row takes the place of
\* the one with its id in the list; a failure is reported.
UpdateTransactionSettle(k, fault) ==
    /\ LET call == upds[k]
           res == ApiUpdateTransaction(backend, store, call.id, call.updates, fault)
       IN  /\ store' = res.store
           /\ transactions' =
                  IF res.ok
                  THEN [i \in DOMAIN transactions |->
                           IF transactions[i].id = call.id THEN res.row
                           ELSE transactions[i]]
                  ELSE transactions
           /\ error' = IF res.ok THEN error ELSE "Falha ao atualizar transacao"
    /\ upds' = RemoveAt(upds, k)
    /\ UNCHANGED <<backend, nextId, adds, dels, ret, run, today, view, user,
                   budgets, categories, budgetStore, loads, saves, timeOfDay,
                   modal>>

\* handleSubmit and the handleSave it calls: an invalid form is refused with
\* an alert; a valid one is added (editing = 0) or updates the row in edit.
HandleSubmit(description, amountText, isRecurring, frequency, editing) ==
    IF ~SubmitAccepts(description, amountText)
    THEN /\ ret' = [op |-> "submit", id |-> 0, value |-> FALSE,
                    description |-> description, amountText |-> amountText]
         /\ UNCHANGED <<backend, store, transactions, error, nextId, adds, dels,
                        run, today, view, others>>
    ELSE IF editing = 0
         THEN AddTransaction(Submitted(description, amountText, isRecurring, frequency))
         ELSE /\ editing \in Ids(transactions)
              /\ UpdateTransaction(editing,
                     Submitted(description, amountText, isRecurring, frequency))

\* handleConvert: the chosen expense, not recurring so far, is updated with
\* its own fields, isRecurring true and the chosen frequency.
HandleConvert(selectedTxId, frequency) ==
    /\ \E i \in DOMAIN transactions :
          /\ transactions[i].id = selectedTxId
          /\ transactions[i].type = "expense"
          /\ ~transactions[i].isRecurring
          /\ UpdateTransaction(selectedTxId,
                 [description |-> transactions[i].description,
                  amount |-> transactions[i].amount,
                  type |-> transactions[i].type,
                  category |-> transactions[i].category,
                  date |-> transactions[i].date,
                  isRecurring |-> TRUE,
                  frequency |-> frequency])

(***************************************************************************)
(* SpecOps: every way the owner changes the stored transactions.           *)
(***************************************************************************)
\* what the owner may have typed: description and amount
FormInputs ==
    { <<"", <<"0", ".", "5">> >>,
      <<"Mercado", <<>> >>,
      <<"Mercado", <<"a", "5">> >>,
      <<"Mercado", <<"0">> >>,
      <<"Mercado", <<"-", "5">> >>,
      <<"Mercado", <<"0", ".", "5">> >> }

OpsLists ==
    { <<Mercado(2, 200000, D1)>>, <<Recurring(Mercado(2, 200000, D1), "monthly")>> }

OpsBatches == [1..1 -> CandidatePool]

InitOps ==
    /\ backend \in {"supabase", "local"}
    /\ store \in OpsLists
    /\ transactions = store
    /\ error = "none"
    /\ nextId = MaxTx
    /\ adds = <<>>
    /\ dels = <<>>
    /\ ret = NoRet
    /\ run = NoRun
    /\ today = Today0
    /\ view = NoView
    /\ SignedIn

\* store calls the owner leaves unanswered before starting another
MaxInFlight == 1

\* The owner can start an operation on the list: the bank modal, which
\* covers the page while an import runs, is not in the way.
CanStart ==
    /\ run.step # "process"
    /\ Len(adds) + Len(upds) + Len(dels) < MaxInFlight

NextOps ==
    \/ \E input \in FormInputs, isRecurring \in BOOLEAN,
          frequency \in {"weekly", "monthly"}, editing \in 0..MaxTx :
           CanStart /\ HandleSubmit(input[1], input[2], isRecurring, frequency, editing)
    \/ \E id \in 1..MaxTx, frequency \in {"weekly", "monthly"} :
           CanStart /\ HandleConvert(id, frequency)
    \/ \E k \in DOMAIN upds, fault \in BOOLEAN : UpdateTransactionSettle(k, fault)
    \/ \E k \in DOMAIN adds : AddTransactionResolve(k)
    \/ \E k \in DOMAIN adds : AddTransactionReject(k)
    \/ CanStart /\ HandleSelectBank
    \/ \E batch \in OpsBatches : ReconcileAndSave(batch)
    \/ \E id \in 1..MaxTx : CanStart /\ DeleteTransaction(id)
    \/ \E k \in DOMAIN dels, fault \in BOOLEAN : DeleteTransactionSettle(k, fault)

SpecOps == InitOps /\ [][NextOps]_vars

\* amount > 0, and a frequency exactly when the row recurs
ValidRow(t) ==
    /\ t.amount > 0
    /\ (t.frequency # "none") <=> t.isRecurring

\* the step is a form submission that should not pass
InvalidSubmission ==
    /\ ret' # ret
    /\ ret'.op = "submit"
    /\ \/ ret'.description = ""
       \/ ParseFloat(ret'.amountText).nan
       \/ ParseFloat(ret'.amountText).value <= 0

BillsShown == 5

\* monthly: if (dueDay > currentDay)
UpcomingMonthly(dueDay, currentDay) == dueDay > currentDay

\* The .map of upcomingBills: the bill with dueDay, dueDisplay, isUpcoming.
Bill(t, now) ==
    LET dayOfWeek == GetDay(t.date)
        todayDayOfWeek == GetDay(now)
        monthly == t.frequency = "monthly" /\ UpcomingMonthly(Day(t.date), Day(now))
        weekly == t.frequency = "weekly" /\ dayOfWeek > todayDayOfWeek
    IN  [tx |-> t,
         dueDay |-> IF weekly THEN Day(now) + (dayOfWeek - todayDayOfWeek)
                    ELSE Day(t.date),
         dueDisplay |-> IF monthly THEN <<Day(t.date), Month(now)>>
                        ELSE IF weekly THEN <<dayOfWeek>> ELSE <<>>,
         isUpcoming |-> monthly \/ weekly]

\* .sort((a, b) => a.dueDay - b.dueDay): stable, ascending
InsertByDueDay(sorted, row) ==
    LET k == Cardinality({i \in DOMAIN sorted : sorted[i].dueDay <= row.dueDay})
    IN  SubSeq(sorted, 1, k) \o <<row>> \o SubSeq(sorted, k + 1, Len(sorted))

RECURSIVE SortByDueDayFrom(_, _, _)
SortByDueDayFrom(rows, i, sorted) ==
    IF i > Len(rows) THEN sorted
    ELSE SortByDueDayFrom(rows, i + 1, InsertByDueDay(sorted, rows[i]))

RECURSIVE KeepUpcoming(_, _)
KeepUpcoming(rows, i) ==
    IF i > Len(rows) THEN <<>>
    ELSE (IF rows[i].isUpcoming THEN <<rows[i]>> ELSE <<>>) \o KeepUpcoming(rows, i + 1)

\* upcomingBills: filter, map, filter, sort, slice
UpcomingBills(txs, now) ==
    LET subs == Subscriptions(txs)
        rows == [i \in DOMAIN subs |-> Bill(subs[i], now)]
        sorted == SortByDueDayFrom(KeepUpcoming(rows, 1), 1, <<>>)
    IN  SubSeq(sorted, 1, Min(BillsShown, Len(sorted)))

MetricsStepFlat(monthlyFixed, sub) == monthlyFixed + sub.amount

\* the body of subscriptions.forEach in metrics
MetricsStep(monthlyFixed, sub) ==
    IF sub.frequency = "weekly" THEN monthlyFixed + sub.amount * 4
    ELSE monthlyFixed + sub.amount

RECURSIVE MonthlyFixedFrom(_, _, _)
MonthlyFixedFrom(subs, i, monthlyFixed) ==
    IF i > Len(subs) THEN monthlyFixed
    ELSE MonthlyFixedFrom(subs, i + 1, MetricsStep(monthlyFixed, subs[i]))

\* metrics: { monthlyFixed, annualProjected }
Metrics(txs) ==
    LET monthlyFixed == MonthlyFixedFrom(Subscriptions(txs), 1, 0)
    IN  [monthlyFixed |-> monthlyFixed, annualProjected |-> monthlyFixed * 12]

(***************************************************************************)
(* SpecBills: the two views over the recurring expenses of a list.         *)
(***************************************************************************)
\* Length of the lists built from the pool.
MaxBills == 2

Bill0(description, amount, date, frequency) ==
    Recurring(Tx(0, description, "expense", amount, "Lazer", date), frequency)

BillsPool ==
    { Bill0("Streaming", 50000, <<2024, 1, 10>>, "monthly"),
      Bill0("Internet", 100000, <<2024, 1, 31>>, "monthly"),
      Bill0("Academia", 30000, <<2024, 2, 10>>, "weekly"),
      Bill0("Feira", 20000, <<2024, 2, 2>>, "weekly"),
      Tx(0, "Mercado", "expense", 200000, "Alimentacao", <<2024, 2, 20>>),
      Recurring(Tx(0, "Salario", "income", 1000000, "Salario", <<2024, 2, 25>>),
                "monthly") }

\* A month of subscriptions: more bills than the view shows.
ManyBills ==
    << Bill0("Aluguel", 900000, <<2024, 1, 28>>, "monthly"),
       Bill0("Internet", 100000, <<2024, 1, 31>>, "monthly"),
       Bill0("Streaming", 50000, <<2024, 1, 15>>, "monthly"),
       Recurring(Tx(0, "Salario", "income", 1000000, "Salario", <<2024, 2, 25>>),
                 "monthly"),
       Bill0("Feira", 20000, <<2024, 2, 2>>, "weekly"),
       Bill0("Seguro", 80000, <<2024, 1, 20>>, "monthly"),
       Tx(0, "Mercado", "expense", 200000, "Alimentacao", <<2024, 2, 20>>),
       Bill0("Telefone", 60000, <<2024, 1, 12>>, "monthly"),
       Bill0("Luz", 70000, <<2024, 1, 11>>, "monthly") >>

BillsLists ==
    UNION {{[i \in 1..n |-> [f[i] EXCEPT !.id = i]] : f \in [1..n -> BillsPool]} :
           n \in 0..MaxBills}
    \cup {[i \in DOMAIN ManyBills |-> [ManyBills[i] EXCEPT !.id = i]]}

InitBills ==
    /\ backend = "local"
    /\ transactions \in BillsLists
    /\ store = transactions
    /\ error = "none"
    /\ nextId = Len(store) + 1
    /\ adds = <<>>
    /\ dels = <<>>
    /\ ret = NoRet
    /\ run = NoRun
    /\ today \in SubsTodays
    /\ view = NoView
    /\ SignedIn

ComputeUpcomingBills ==
    /\ view' = [kind |-> "bills", value |-> UpcomingBills(transactions, today)]
    /\ UNCHANGED <<others, backend, store, transactions, error, nextId, adds,
                   dels, ret, run, today>>

ComputeMetrics ==
    /\ view' = [kind |-> "metrics", value |-> Metrics(transactions)]
    /\ UNCHANGED <<others, backend, store, transactions, error, nextId, adds,
                   dels, ret, run, today>>

NextBills == ComputeUpcomingBills \/ ComputeMetrics

SpecBills == InitBills /\ [][NextBills]_vars

\* positions of the recurring expenses of the list
RecurringExpenses(txs) ==
    {i \in DOMAIN txs : txs[i].type = "expense" /\ txs[i].isRecurring}

\* Days from now to the date the bill falls on in the current period (the
\* month for a monthly bill, the Sunday-to-Saturday week for a weekly one);
\* negative when that date is past.
DaysUntilInPeriod(t, now) ==
    IF t.frequency = "monthly" THEN Day(t.date) - Day(now)
    ELSE GetDay(t.date) - GetDay(now)

DueInPeriod(t, now) ==
    /\ DaysUntilInPeriod(t, now) >= 0
    /\ t.frequency = "monthly" => Day(t.date) <= DaysInMonth(Year(now), Month(now))

\* C21: the upcoming bills are recurring expenses only, at most 5, in
\* ascending order of days until due, and every recurring expense due today
\* or later in the current period is listed unless the 5 places are taken.
C21_UpcomingBills ==
    view.kind = "bills" =>
        LET bills == view.value
        IN  /\ Len(bills) <= 5
            /\ \A i \in DOMAIN bills :
                  /\ bills[i].tx.type = "expense" /\ bills[i].tx.isRecurring
                  /\ \E j \in DOMAIN transactions : transactions[j] = bills[i].tx
            /\ \A i, j \in DOMAIN bills :
                  i < j => DaysUntilInPeriod(bills[i].tx, today)
                               <= DaysUntilInPeriod(bills[j].tx, today)
            /\ \/ Len(bills) = 5
               \/ \A j \in RecurringExpenses(transactions) :
                     DueInPeriod(transactions[j], today) =>
                         \E i \in DOMAIN bills : bills[i].tx = transactions[j]

\* C22: the monthly cost is 4 x amount over the weekly recurring expenses
\* plus the amount over the monthly ones, nothing else counted, and the
\* annual cost is 12 times the monthly cost.
C22_ProjectedCost ==
    view.kind = "metrics" =>
        LET weekly == {i \in RecurringExpenses(transactions) :
                           transactions[i].frequency = "weekly"}
            monthly == {i \in RecurringExpenses(transactions) :
                            transactions[i].frequency = "monthly"}
        IN  /\ view.value.monthlyFixed
                   = 4 * SumOver(transactions, weekly) + SumOver(transactions, monthly)
            /\ view.value.annualProjected = 12 * view.value.monthlyFixed

C22_Witness ==
    /\ view.kind = "metrics"
    /\ transactions = [i \in DOMAIN ManyBills |-> [ManyBills[i] EXCEPT !.id = i]]
    /\ view.value.monthlyFixed = 1340000
    /\ view.value.annualProjected = 16080000

(***************************************************************************)
(* Instants.  new Date('YYYY-MM-DD') is midnight UTC of that date, while   *)
(* new Date() and setDate/getDay/setHours work on the local clock; an      *)
(* instant is kept as its UTC date and the minutes since UTC midnight, and *)
(* offset is local time minus UTC in minutes (no daylight saving).         *)
(***************************************************************************)
\* the date k days after date (before it for k < 0)
RECURSIVE AddDays(_, _)
AddDays(date, k) ==
    LET y == Year(date)
        m == Month(date)
        d == Day(date) + k
    IN  IF d < 1
        THEN LET py == IF m = 1 THEN y - 1 ELSE y
                 pm == IF m = 1 THEN 12 ELSE m - 1
             IN  AddDays(<<py, pm, DaysInMonth(py, pm)>>, d)
        ELSE IF d > DaysInMonth(y, m)
             THEN AddDays(<<IF m = 12 THEN y + 1 ELSE y, IF m = 12 THEN 1 ELSE m + 1, 1>>,
                          d - DaysInMonth(y, m) - 1)
             ELSE <<y, m, d>>

Instant(date, minutes) == [date |-> date, minutes |-> minutes]

\* the instant the local clock shows as date, minutes
FromLocal(date, minutes, offset) ==
    LET m == minutes - offset
    IN  IF m >= MinutesPerDay THEN Instant(AddDays(date, 1), m - MinutesPerDay)
        ELSE IF m < 0 THEN Instant(AddDays(date, -1), m + MinutesPerDay)
        ELSE Instant(date, m)

\* what the local clock shows at an instant
ToLocal(instant, offset) ==
    LET m == instant.minutes + offset
    IN  IF m >= MinutesPerDay
        THEN Instant(AddDays(instant.date, 1), m - MinutesPerDay)
        ELSE IF m < 0 THEN Instant(AddDays(instant.date, -1), m + MinutesPerDay)
        ELSE Instant(instant.date, m)

\* a < b for instants
Earlier(a, b) ==
    \/ DayNumber(a.date) < DayNumber(b.date)
    \/ a.date = b.date /\ a.minutes < b.minutes

\* new Date(dateStr)
ParseDate(date) == Instant(date, 0)

\* toISOString().split('T')[0]
IsoDate(instant) == instant.date

(***************************************************************************)
(* BalanceTrendChart: the balance of each day of the last six months.      *)
(***************************************************************************)
\* one step of the stable sort by date
InsertByDate(sorted, t) ==
    LET k == Cardinality({i \in DOMAIN sorted :
                              DayNumber(sorted[i].date) <= DayNumber(t.date)})
    IN  SubSeq(sorted, 1, k) \o <<t>> \o SubSeq(sorted, k + 1, Len(sorted))

RECURSIVE SortByDateFrom(_, _, _)
SortByDateFrom(txs, i, sorted) ==
    IF i > Len(txs) THEN sorted
    ELSE SortByDateFrom(txs, i + 1, InsertByDate(sorted, txs[i]))

\* historyMap.set(t.date, currentBalance): a Map keeps the place of a key
\* that is set again
MapSet(map, key, value) ==
    IF \E i \in DOMAIN map : map[i].key = key
    THEN [i \in DOMAIN map |->
             IF map[i].key = key THEN [key |-> key, value |-> value] ELSE map[i]]
    ELSE Append(map, [key |-> key, value |-> value])

MapHas(map, key) == \E i \in DOMAIN map : map[i].key = key

MapGet(map, key) == map[CHOOSE i \in DOMAIN map : map[i].key = key].value

RECURSIVE HistoryMapFrom(_, _, _, _)
HistoryMapFrom(sortedTx, i, currentBalance, historyMap) ==
    IF i > Len(sortedTx) THEN historyMap
    ELSE LET balance == currentBalance + Signed(sortedTx[i])
         IN  HistoryMapFrom(sortedTx, i + 1, balance,
                            MapSet(historyMap, sortedTx[i].date, balance))

\* sixMonthsAgo = new Date(); sixMonthsAgo.setMonth(today.getMonth() - 6):
\* the local date six months back, a day past the end of that month rolling
\* over, at the same local time
SixMonthsAgo(nowDate, nowMinutes, offset) ==
    LET monthIndex == GetMonth(nowDate) - 6
        date == IF monthIndex < 0
                THEN NewDate(Year(nowDate) - 1, monthIndex + 12, Day(nowDate))
                ELSE NewDate(Year(nowDate), monthIndex, Day(nowDate))
    IN  FromLocal(date, nowMinutes, offset)

\* the for loop over historyMap.entries(): the last balance before pointerDate
RECURSIVE BalanceBefore(_, _, _, _)
BalanceBefore(historyMap, i, pointerDate, lastKnownBalance) ==
    IF i > Len(historyMap) THEN lastKnownBalance
    ELSE BalanceBefore(historyMap, i + 1, pointerDate,
                       IF Earlier(ParseDate(historyMap[i].key), pointerDate)
                       THEN historyMap[i].value ELSE lastKnownBalance)

\* One pass of the while loop, pointerDate being day days further on.
BalanceRow(pointerDate, day, historyMap, lastKnownBalance, offset) ==
    LET pointer == Instant(AddDays(pointerDate.date, day), pointerDate.minutes)
        dateStr == IsoDate(pointer)
        shown == ToLocal(pointer, offset).date
    IN  [date |-> dateStr,
         displayDate |-> <<Day(shown), Month(shown)>>,
         balance |-> IF MapHas(historyMap, dateStr) THEN MapGet(historyMap, dateStr)
                     ELSE lastKnownBalance]

\* The passes first..last of the loop, lastKnownBalance being the balance
\* before pass first: the rows pushed, done in two halves.
RECURSIVE BalanceRowsBetween(_, _, _, _, _, _)
BalanceRowsBetween(pointerDate, first, last, historyMap, lastKnownBalance, offset) ==
    IF first > last THEN <<>>
    ELSE IF first = last
    THEN <<BalanceRow(pointerDate, first, historyMap, lastKnownBalance, offset)>>
    ELSE LET middle == (first + last) \div 2
             left == BalanceRowsBetween(pointerDate, first, middle, historyMap,
                                        lastKnownBalance, offset)
         IN  left \o BalanceRowsBetween(pointerDate, middle + 1, last, historyMap,
                                        left[Len(left)].balance, offset)

\* while (pointerDate <= today): how many times the loop runs
BalancePasses(pointerDate, now) ==
    LET days == DayNumber(now.date) - DayNumber(pointerDate.date)
        passes == IF pointerDate.minutes <= now.minutes THEN days + 1 ELSE days
    IN  IF passes < 0 THEN 0 ELSE passes

BalanceRows(pointerDate, now, historyMap, lastKnownBalance, offset) ==
    BalanceRowsBetween(pointerDate, 0, BalancePasses(pointerDate, now) - 1,
                       historyMap, lastKnownBalance, offset)

\* data of BalanceTrendChart, the local clock showing nowDate, nowMinutes
BalanceTrend(txs, nowDate, nowMinutes, offset) ==
    IF Len(txs) = 0 THEN <<>>
    ELSE LET sortedTx == SortByDateFrom(txs, 1, <<>>)
             historyMap == HistoryMapFrom(sortedTx, 1, 0, <<>>)
             now == FromLocal(nowDate, nowMinutes, offset)
             sixMonthsAgo == SixMonthsAgo(nowDate, nowMinutes, offset)
             first == ParseDate(sortedTx[1].date)
             pointerDate == IF Earlier(sixMonthsAgo, first) THEN first
                            ELSE sixMonthsAgo
         IN  BalanceRows(pointerDate, now, historyMap,
                         BalanceBefore(historyMap, 1, pointerDate, 0), offset)

(***************************************************************************)
(* ExpenseHeatmap: the expenses of each day of the last thirteen weeks.    *)
(***************************************************************************)
DAYS_TO_SHOW == 91

\* while (startDate.getDay() !== 0) startDate.setDate(startDate.getDate() - 1)
RECURSIVE BackToSunday(_)
BackToSunday(date) ==
    IF GetDay(date) # 0 THEN BackToSunday(AddDays(date, -1)) ELSE date

\* the body of transactions.forEach: expenseMap and maxExpense
ExpenseStep(acc, t) ==
    IF t.type = "expense"
    THEN LET current == IF MapHas(acc.expenseMap, t.date)
                        THEN MapGet(acc.expenseMap, t.date) ELSE 0
             newVal == current + t.amount
         IN  [expenseMap |-> MapSet(acc.expenseMap, t.date, newVal),
              maxExpense |-> IF newVal > acc.maxExpense THEN newVal
                             ELSE acc.maxExpense]
    ELSE acc

RECURSIVE ExpensesFrom(_, _, _)
ExpensesFrom(txs, i, acc) ==
    IF i > Len(txs) THEN acc
    ELSE ExpensesFrom(txs, i + 1, ExpenseStep(acc, txs[i]))

\* maxExpense > 0 ? amount / maxExpense : 0
Intensity(amount, maxExpense) ==
    IF maxExpense > 0 THEN Fraction(amount, maxExpense) ELSE Fraction(0, 1)

\* One pass of the while loop, pointer being a local midnight.
HeatmapDay(pointer, acc, offset) ==
    LET dateStr == IsoDate(FromLocal(pointer, 0, offset))
        amount == IF MapHas(acc.expenseMap, dateStr)
                  THEN MapGet(acc.expenseMap, dateStr) ELSE 0
    IN  [date |-> pointer, dateStr |-> dateStr, amount |-> amount,
         intensity |-> Intensity(amount, acc.maxExpense)]

\* while (pointer <= today || pointer.getDay() !== 0): the loop goes through
\* today and on to the Saturday of today's week, and the break inside it
\* is never taken; the day after its last pass
RECURSIVE HeatmapEnd(_, _)
HeatmapEnd(pointer, nowDate) ==
    IF DayNumber(pointer) <= DayNumber(nowDate) \/ GetDay(pointer) # 0
    THEN HeatmapEnd(IF DayNumber(pointer) <= DayNumber(nowDate)
                    THEN AddDays(nowDate, 1) ELSE AddDays(pointer, 1), nowDate)
    ELSE pointer

HeatmapDays(startDate, nowDate, acc, offset) ==
    LET passes == DayNumber(HeatmapEnd(startDate, nowDate)) - DayNumber(startDate)
    IN  [i \in 1..passes |-> HeatmapDay(AddDays(startDate, i - 1), acc, offset)]

\* heatmapData: { days, maxExpense }
Heatmap(txs, nowDate, offset) ==
    LET startDate == BackToSunday(AddDays(nowDate, 0 - DAYS_TO_SHOW))
        acc == ExpensesFrom(txs, 1, [expenseMap |-> <<>>, maxExpense |-> 0])
    IN  [days |-> HeatmapDays(startDate, nowDate, acc, offset),
         maxExpense |-> acc.maxExpense]

(***************************************************************************)
(* SpecCharts: the two charts over lists of dated transactions, at three   *)
(* times of the day and with the local clock behind, on and ahead of UTC.  *)
(***************************************************************************)
\* Length of the lists built from the pool.
MaxChartTx == 2

ChartDates ==
    { <<2023, 6, 15>>, <<2024, 1, 31>>, <<2024, 2, 8>>, <<2024, 2, 10>>,
      <<2024, 2, 12>> }

ChartPool ==
    { Tx(0, "Mercado", "expense", a, "Alimentacao", d) :
          a \in {200000, 600000}, d \in ChartDates }
    \cup { Tx(0, "Salario", "income", 1000000, "Salario", d) :
               d \in {<<2023, 6, 15>>, <<2024, 2, 8>>} }

ChartLists ==
    UNION {{[i \in 1..n |-> [f[i] EXCEPT !.id = i]] : f \in [1..n -> ChartPool]} :
           n \in 0..MaxChartTx}

ChartTodays == { <<2024, 2, 10>>, <<2024, 2, 11>>, <<2024, 8, 31>> }

\* local time minus UTC, in minutes
Offsets == {0 - 180, 0, 540}

InitCharts ==
    /\ backend = "local"
    /\ transactions \in ChartLists
    /\ store = transactions
    /\ error = "none"
    /\ nextId = Len(store) + 1
    /\ adds = <<>>
    /\ dels = <<>>
    /\ ret = NoRet
    /\ run = NoRun
    /\ today \in ChartTodays
    /\ timeOfDay \in {60, 750, 1380}
    /\ modal = NoModal
    /\ view = NoView
    /\ user = "u1"
    /\ budgets = <<>>
    /\ categories = <<>>
    /\ budgetStore = <<>>
    /\ loads = <<>>
    /\ saves = <<>>
    /\ upds = <<>>

ComputeBalanceTrend(offset) ==
    /\ view' = [kind |-> "balance", offset |-> offset,
                value |-> BalanceTrend(transactions, today, timeOfDay, offset)]
    /\ UNCHANGED <<others, backend, store, transactions, error, nextId, adds,
                   dels, ret, run, today>>

ComputeHeatmap(offset) ==
    /\ view' = [kind |-> "heatmap", offset |-> offset,
                value |-> Heatmap(transactions, today, offset)]
    /\ UNCHANGED <<others, backend, store, transactions, error, nextId, adds,
                   dels, ret, run, today>>

NextCharts ==
    \/ \E offset \in Offsets : ComputeBalanceTrend(offset)
    \/ \E offset \in Offsets : ComputeHeatmap(offset)

SpecCharts == InitCharts /\ [][NextCharts]_vars

\* positions of the transactions dated on or before date
UpTo(txs, date) == {i \in DOMAIN txs : DayNumber(txs[i].date) <= DayNumber(date)}

\* the earliest date of a non-empty list
Earliest(txs) ==
    LET i == CHOOSE i \in DOMAIN txs :
                 \A j \in DOMAIN txs : DayNumber(txs[i].date) <= DayNumber(txs[j].date)
    IN  txs[i].date

\* C24: for a non-empty list the balance history has one entry for each
\* calendar day from its first day through today, today included, in
\* ascending order, and the balance of each day is the signed sum of the
\* transactions dated on or before that day.
C24_BalanceOfEveryDay ==
    (view.kind = "balance" /\ transactions # <<>>
         /\ DayNumber(Earliest(transactions)) <= DayNumber(today)) =>
        LET rows == view.value
        IN  /\ Len(rows) >= 1
            /\ rows[Len(rows)].date = today
            /\ \A i \in 1..(Len(rows) - 1) : rows[i + 1].date = AddDays(rows[i].date, 1)
            /\ \A i \in DOMAIN rows :
                  rows[i].balance = SignedSum(transactions, UpTo(transactions, rows[i].date))

\* the window start of the spec: the later of the earliest transaction date
\* and the day six months before today, moved back to a Sunday
WindowStart(txs, now) ==
    LET back == IF Month(now) > 6 THEN <<Year(now), Month(now) - 6>>
                ELSE <<Year(now) - 1, Month(now) + 6>>
        sixMonthsAgo == <<back[1], back[2], Min(Day(now), DaysInMonth(back[1], back[2]))>>
        first == Earliest(txs)
        later == IF DayNumber(first) > DayNumber(sixMonthsAgo) THEN first
                 ELSE sixMonthsAgo
    IN  AddDays(later, 0 - GetDay(later))

\* C25: the first day of the balance history is the later of the earliest
\* transaction date and today minus the window, moved back to the most
\* recent week start, so it is always a Sunday.
C25_FirstDayIsWeekStart ==
    (view.kind = "balance" /\ Len(view.value) >= 1) =>
        /\ GetDay(view.value[1].date) = 0
        /\ view.value[1].date = WindowStart(transactions, today)

\* the largest amount among the days of the heatmap
MaxInWindow(days) ==
    LET amounts == {days[i].amount : i \in DOMAIN days}
    IN  CHOOSE a \in amounts : \A b \in amounts : b <= a

\* C26: each day of the heatmap carries the sum of the expenses of its date,
\* income left out, and its intensity is that amount divided by the largest
\* amount among the days of the window: between 0 and 1, equal to 1 on some
\* day when the window has an expense, and 0 everywhere when it has none.
C26_HeatmapIntensity ==
    view.kind = "heatmap" =>
        LET days == view.value.days
            onDate(d) == {i \in Expenses(transactions) : transactions[i].date = d}
        IN  \A i \in DOMAIN days :
               /\ days[i].amount = SumOver(transactions, onDate(days[i].dateStr))
               /\ days[i].intensity.num >= 0
               /\ days[i].intensity.num <= days[i].intensity.den
               /\ days[i].intensity =
                      IF MaxInWindow(days) > 0
                      THEN Fraction(days[i].amount, MaxInWindow(days))
                      ELSE Fraction(0, 1)

(***************************************************************************)
(* SpecSave: the transaction modal of the dashboard, from its opening to   *)
(* the end of handleSave.                                                  *)
(***************************************************************************)
\* handleOpenAdd
HandleOpenAdd ==
    /\ modal' = [modal EXCEPT !.editingTransaction = 0, !.isModalOpen = TRUE]
    /\ UNCHANGED <<backend, store, transactions, error, nextId, adds, dels, ret,
                   run, today, view, user, budgets, categories, budgetStore,
                   loads, saves, upds, timeOfDay>>

\* handleOpenEdit(t), t a row of the list
HandleOpenEdit(id) ==
    /\ id \in Ids(transactions)
    /\ modal' = [modal EXCEPT !.editingTransaction = id, !.isModalOpen = TRUE]
    /\ UNCHANGED <<backend, store, transactions, error, nextId, adds, dels, ret,
                   run, today, view, user, budgets, categories, budgetStore,
                   loads, saves, upds, timeOfDay>>

\* onClose: () => !isSubmitting && setIsModalOpen(false)
OnClose ==
    /\ modal.isModalOpen
    /\ ~modal.isSubmitting
    /\ modal' = [modal EXCEPT !.isModalOpen = FALSE]
    /\ UNCHANGED <<backend, store, transactions, error, nextId, adds, dels, ret,
                   run, today, view, user, budgets, categories, budgetStore,
                   loads, saves, upds, timeOfDay>>

\* handleSave up to its await: isSubmitting is set and updateTransaction or
\* addTransaction runs up to its own await.
HandleSave(data) ==
    /\ modal.isModalOpen
    /\ modal' = [modal EXCEPT !.isSubmitting = TRUE]
    /\ error' = "none"
    /\ IF modal.editingTransaction # 0
       THEN /\ Len(upds) < MaxUpds
            /\ upds' = Append(upds, [id |-> modal.editingTransaction,
                                     updates |-> data])
            /\ adds' = adds
       ELSE /\ nextId + Len(adds) <= MaxTx
            /\ adds' = Append(adds, [origin |-> "form", data |-> data])
            /\ upds' = upds
    /\ UNCHANGED <<backend, store, transactions, nextId, dels, ret, run, today,
                   view, user, budgets, categories, budgetStore, loads, saves,
                   timeOfDay>>

\* The rest of handleSave once the awaited call has returned, which it does
\* whether the store call succeeded or failed, addTransaction and
\* updateTransaction catching the error: setIsModalOpen(false), and finally
\* setIsSubmitting(false).
ClosedAfterSave(m) ==
    [m EXCEPT !.isModalOpen = FALSE, !.isSubmitting = FALSE]

\* addTransaction after its await, then the rest of handleSave
HandleSaveAddSettle(k, fault) ==
    /\ nextId <= MaxTx
    /\ LET res == ApiCreateTransaction(store, adds[k].data, nextId)
       IN  /\ store' = IF fault THEN store ELSE res.store
           /\ transactions' = IF fault THEN transactions
                              ELSE <<res.row>> \o transactions
           /\ nextId' = IF fault THEN nextId ELSE nextId + 1
           /\ error' = IF fault THEN "Falha ao adicionar transacao" ELSE error
    /\ adds' = RemoveAt(adds, k)
    /\ modal' = ClosedAfterSave(modal)
    /\ ret' = [op |-> "handleSave", id |-> 0, value |-> ~fault]
    /\ UNCHANGED <<backend, dels, run, today, view, user, budgets, categories,
                   budgetStore, loads, saves, upds, timeOfDay>>

\* updateTransaction after its await, then the rest of handleSave
HandleSaveUpdateSettle(k, fault) ==
    /\ LET call == upds[k]
           res == ApiUpdateTransaction(backend, store, call.id, call.updates, fault)
       IN  /\ store' = res.store
           /\ transactions' =
                  IF res.ok
                  THEN [i \in DOMAIN transactions |->
                           IF transactions[i].id = call.id THEN res.row
                           ELSE transactions[i]]
                  ELSE transactions
           /\ error' = IF res.ok THEN error ELSE "Falha ao atualizar transacao"
           /\ modal' = ClosedAfterSave(modal)
           /\ ret' = [op |-> "handleSave", id |-> call.id, value |-> res.ok]
    /\ upds' = RemoveAt(upds, k)
    /\ UNCHANGED <<backend, nextId, adds, dels, run, today, view, user, budgets,
                   categories, budgetStore, loads, saves, timeOfDay>>

SaveData ==
    { Submitted("Mercado", <<"5">>, FALSE, "monthly"),
      Submitted("Mercado", <<"0", ".", "5">>, TRUE, "weekly") }

InitSave ==
    /\ backend \in {"supabase", "local"}
    /\ store \in OpsLists
    /\ transactions = store
    /\ error = "none"
    /\ nextId = 3
    /\ adds = <<>>
    /\ dels = <<>>
    /\ ret = NoRet
    /\ run = NoRun
    /\ today = Today0
    /\ view = NoView
    /\ SignedIn

NextSave ==
    \/ HandleOpenAdd
    \/ \E id \in 1..MaxTx : HandleOpenEdit(id)
    \/ OnClose
    \/ \E data \in SaveData : HandleSave(data)
    \/ \E k \in DOMAIN adds, fault \in BOOLEAN : HandleSaveAddSettle(k, fault)
    \/ \E k \in DOMAIN upds, fault \in BOOLEAN : HandleSaveUpdateSettle(k, fault)

SpecSave == InitSave /\ [][NextSave]_vars

\* C27: a handleSave that ends leaves the modal closed only if its add or
\* update succeeded in the store; when the store call failed the modal is
\* still open and the list is the one before.
C27_ModalClosedOnlyOnSuccess ==
    [][(ret' # ret /\ ret'.op = "handleSave") =>
           /\ ~modal'.isModalOpen => ret'.value
           /\ ~ret'.value => (modal'.isModalOpen /\ transactions' = transactions)]_vars

(***************************************************************************)
(* Statements about deletes that fail while other calls complete           *)
(* (SpecDelete).                                                           *)
(***************************************************************************)
\* the two lists hold the same rows
SameRows(a, b) == {a[i] : i \in DOMAIN a} = {b[i] : i \in DOMAIN b}

\* the step is the end of a delete that failed, nothing else being in flight
\* after it
FailedDeleteSettles ==
    /\ Len(dels') < Len(dels)
    /\ ret'.op = "delete"
    /\ ~ret'.value
    /\ dels' = <<>>
    /\ adds' = <<>>

\* C28: when a delete fails after other adds or deletes have completed in
\* the meantime, the rollback keeps their effect: once it is done the list
\* in memory holds exactly the rows of the store.
C28_RollbackKeepsOtherMutations ==
    [][FailedDeleteSettles => SameRows(transactions', store')]_vars

\* C29: the imported count a run reports is the number of rows the run
\* created in the store and added to the in-memory list, also when some of
\* its creates failed.
C29_ImportedCountsCreatedRows ==
    run.step = "success" =>
        /\ run.resultSummary.imported = Len(run.created)
        /\ \A j \in DOMAIN run.created :
              /\ \E i \in DOMAIN store : store[i] = run.created[j]
              /\ \E i \in DOMAIN transactions : transactions[i] = run.created[j]

\* The step in which reconcileAndSave starts matching.
MatchingStarts == run.phase = "connecting" /\ run'.phase # "connecting"

\* C30: a candidate that duplicates a transaction of the in-memory list of
\* the moment matching starts is skipped, whether the transaction was in the
\* list when the bank was selected or entered it during the delays.
C30_MatchedAgainstListAtStart ==
    [][MatchingStarts =>
          \A i \in DOMAIN run'.decisions :
              IsDuplicate(transactions, run'.candidates[i])
                  => run'.decisions[i] = "skipped"]_vars

====
